---- MODULE Spec2Model ----
(***************************************************************************)
(* Ledger balance derivation (calculateBalances) and settlement planning   *)
(* (minimizeSettlements) of the shared-expense application.                *)
(*                                                                         *)
(* The source computes on JavaScript numbers, i.e. IEEE-754 binary64.      *)
(* Several branches of the code compare a computed amount with the literal *)
(* 0.01 or round a computed amount at a half-cent, so the model keeps the  *)
(* exact binary64 value of every amount: 0.03 - 0.02 is                    *)
(* 0.009999999999999998 here as it is in the program.                      *)
(***************************************************************************)
EXTENDS Integers, Sequences, FiniteSets, TLC

(***************************************************************************)
(* Bounds of the model.                                                    *)
(***************************************************************************)
\* Longest participants list of an expense record.
MaxParticipants == 3

(***************************************************************************)
(* binary64 arithmetic.                                                    *)
(*                                                                         *)
(* A number x is the record [s |-> s, d |-> d] with                        *)
(*        x = (s * 2^62 + d) / (Scale * 2^62)                              *)
(* s counts 1/Scale dollars (Scale = 100 * SubCent, so that a whole-cent   *)
(* amount divided by a participants count is a whole number of units) and  *)
(* d is the representation error of the double, in units of                *)
(* 1/(Scale * 2^62).  Every double of magnitude in [2^-10, 2^5) is a       *)
(* multiple of 2^-62, and so are the sums and differences of such doubles, *)
(* which makes s * 2^62 + d a multiple of Scale.  Rounding to the nearest  *)
(* double (ties to even) is rounding s * 2^62 + d to a multiple of         *)
(* Scale * 2^j, where 2^(j-62) is the unit in the last place.              *)
(***************************************************************************)
RECURSIVE Gcd(_, _)
Gcd(a, b) == IF b = 0 THEN a ELSE Gcd(b, a % b)

RECURSIVE LcmUpTo(_)
LcmUpTo(n) == IF n <= 1 THEN 1 ELSE LET l == LcmUpTo(n - 1) IN (l * n) \div Gcd(l, n)

\* Model units per cent: amount / participants.length is a whole number of units.
SubCent == LcmUpTo(MaxParticipants)

\* Model units per dollar.
Scale == 100 * SubCent

RECURSIVE Pow2(_)
Pow2(n) == IF n = 0 THEN 1 ELSE 2 * Pow2(n - 1)

RECURSIVE Pow2Mod(_, _)
\* (a * b) mod m for a, b < m < 2^21, every intermediate value within 32 bits.
MulMod(a, b, m) ==
  IF m <= 46340 THEN (a * b) % m
  ELSE (((a * (b \div 512)) % m) * 512 + a * (b % 512)) % m

\* 2^n mod m, by repeated squaring.
Pow2Mod(n, m) ==
  IF n = 0 THEN 1 % m
  ELSE IF n % 2 = 0 THEN LET h == Pow2Mod(n \div 2, m) IN MulMod(h, h, m)
  ELSE (2 * Pow2Mod(n - 1, m)) % m

\* Exponent of the unit of the representation: d counts 1/(Scale * 2^MantBits).
MantBits == 52 + 10

\* Largest supported exponent index: magnitudes below 2^(JMax - 9) = 64.
JMax == 10 + 5

\* (s * 2^62 + d) / (n * Scale * 2^62) >= 2^(i - 10), for s * 2^62 + d >= 0.
GeqPow(s, d, n, i) ==
  IF i >= 10
  THEN LET t == n * Scale * Pow2(i - 10) IN s > t \/ (s = t /\ d >= 0)
  ELSE LET p == Pow2(10 - i)
           t == n * Scale
       IN s > t \div p \/ (t % p = 0 /\ s = t \div p /\ d >= 0)

RECURSIVE UlpFrom(_, _, _, _)
\* The largest i from k on, up to JMax, with q >= 2^(i - 10); k when there is none.
UlpFrom(s, d, n, k) ==
  IF k < JMax /\ GeqPow(s, d, n, k + 1) THEN UlpFrom(s, d, n, k + 1) ELSE k

\* The unit in the last place of q = (s * 2^62 + d) / (n * Scale * 2^62) is 2^(j - 62).
UlpIndex(s, d, n) == UlpFrom(s, d, n, 0)

\* (s * 2^62 + d) mod (m * 2^j), with 0 <= j <= 62.
ModAt(s, d, m, j) ==
  LET rho == ((s % m) * Pow2Mod(MantBits - j, m)) % m
  IN (Pow2(j) * rho + d) % (m * Pow2(j))

\* The error term d' such that s * 2^62 + d' is the multiple of n * Scale * 2^j
\* nearest to s * 2^62 + d (a tie goes to the even multiple): round to nearest,
\* ties to even, of the quotient by n.  Needs s * 2^62 + d >= 0.
RoundPos(s, d, n) ==
  LET j  == UlpIndex(s, d, n)
      m  == n * Scale
      mm == m * Pow2(j)
      r  == ModAt(s, d, m, j)
      r2 == ModAt(s, d, 2 * m, j)
  IN IF 2 * r < mm THEN d - r
     ELSE IF 2 * r > mm THEN d + (mm - r)
     ELSE IF r2 = r THEN d - r ELSE d + (mm - r)

IsNeg(s, d) == s < 0 \/ (s = 0 /\ d < 0)

\* The double nearest to the real (s * 2^62 + d) / (Scale * 2^62).
Fl(s, d) ==
  IF IsNeg(s, d)
  THEN [s |-> s, d |-> 0 - RoundPos(0 - s, 0 - d, 1)]
  ELSE [s |-> s, d |-> RoundPos(s, d, 1)]

\* A decimal literal with two decimals, k/100, as the parser reads it.
Cents(k) == Fl(k * SubCent, 0)

Zero == [s |-> 0, d |-> 0]

FlAdd(x, y) == Fl(x.s + y.s, x.d + y.d)
FlSub(x, y) == Fl(x.s - y.s, x.d - y.d)
FlNeg(x) == [s |-> 0 - x.s, d |-> 0 - x.d]
FlAbs(x) == IF IsNeg(x.s, x.d) THEN FlNeg(x) ELSE x
FlLt(x, y) == x.s < y.s \/ (x.s = y.s /\ x.d < y.d)
FlLeq(x, y) == ~FlLt(y, x)
FlMin(x, y) == IF FlLt(y, x) THEN y ELSE x

\* x / n for a positive integer n that divides x.s.
FlDiv(x, n) ==
  IF IsNeg(x.s, x.d)
  THEN [s |-> x.s \div n, d |-> 0 - (RoundPos(0 - x.s, 0 - x.d, n) \div n)]
  ELSE [s |-> x.s \div n, d |-> RoundPos(x.s, x.d, n) \div n]

\* x * 100.
FlMul100(x) == Fl(100 * x.s, 100 * x.d)

\* Math.round: the integer nearest to x, a tie going up.
MathRound(x) ==
  LET a == 2 * x.s + Scale
      k == a \div (2 * Scale)
  IN IF a % (2 * Scale) = 0 /\ x.d < 0 THEN k - 1 ELSE k

\* The exact number of cents of a whole-cent value (its error term dropped).
CentsOf(x) == x.s \div SubCent

roundToTwo(value) == Cents(MathRound(FlMul100(value)))

(***************************************************************************)
(* Generic helpers on sequences.                                           *)
(***************************************************************************)
RECURSIVE SeqsUpTo(_, _)
\* All sequences over S of length at most n.
SeqsUpTo(S, n) ==
  IF n = 0 THEN {<<>>}
  ELSE LET shorter == SeqsUpTo(S, n - 1)
       IN shorter \cup {Append(q, x) : q \in {r \in shorter : Len(r) = n - 1}, x \in S}

Range(q) == {q[k] : k \in 1..Len(q)}

\* An object has the property f (a property it lacks reads as undefined).
Has(obj, f) == f \in DOMAIN obj

\* A Map or an object literal with no entry.
EmptyMap == [x \in {} |-> Zero]

(***************************************************************************)
(* State.                                                                  *)
(*   expenses     the argument of calculateBalances                        *)
(*   idx          number of records the for-of loop has consumed           *)
(*   balanceMap   the accumulator Map, as its entries in insertion order   *)
(*   result       the Map calculateBalances returns, in insertion order    *)
(*   balances     the argument of minimizeSettlements                      *)
(*   creditors, debtors, settlements, i, j   its locals (i, j count from 1)*)
(*   pc           where the run stands                                     *)
(*   verdict      what validateSettlements returned                        *)
(*   alternative  what minimizeSettlementsAlternative returned             *)
(*   splitCall    the arguments of a call of calculateSplit                *)
(*   splitOutcome what that call returned                                  *)
(*   db           the Firestore collections groups, groupMembers,          *)
(*                groupInvites and expenses                                *)
(*   calls        the calls of the asynchronous functions, each with its   *)
(*                arguments, its locals and the await it stands at         *)
(***************************************************************************)
VARIABLES expenses, idx, balanceMap, result, balances,
          creditors, debtors, settlements, i, j, pc, verdict, alternative,
          splitCall, splitOutcome, db, calls

vars == <<expenses, idx, balanceMap, result, balances,
          creditors, debtors, settlements, i, j, pc, verdict,
          alternative, splitCall, splitOutcome, db, calls>>

ledgerVars == <<expenses, idx, balanceMap, result>>
plannerLocals == <<creditors, debtors, settlements, i, j>>

\* No call of calculateSplit was made.
NoCall == [made |-> FALSE]
splitVars == <<splitCall, splitOutcome>>

\* No collection has a document and no call was made.
NoStore == [groups |-> <<>>, groupMembers |-> <<>>, groupInvites |-> <<>>, expenses |-> <<>>]
storeVars == <<db, calls>>

(***************************************************************************)
(* Settlement planner: minimizeSettlements.                                *)
(***************************************************************************)
\* Array.prototype.sort with the comparator (a, b) => b.amount - a.amount:
\* a stable sort, descending by amount.
RECURSIVE InsertDesc(_, _)
InsertDesc(sorted, x) ==
  IF sorted = <<>> THEN <<x>>
  ELSE IF FlLt(Head(sorted).amount, x.amount) THEN <<x>> \o sorted
  ELSE <<Head(sorted)>> \o InsertDesc(Tail(sorted), x)

RECURSIVE SortDesc(_)
SortDesc(q) ==
  IF q = <<>> THEN <<>>
  ELSE InsertDesc(SortDesc(SubSeq(q, 1, Len(q) - 1)), q[Len(q)])

\* A debtor test that also takes the settled entries: netAmount <= 0.
IsDebtorOrSettled(b) == FlLeq(b.netAmount, Zero)

\* A creditor test that also takes the settled entries: netAmount >= 0.
IsCreditorOrSettled(b) == FlLeq(Zero, b.netAmount)

IsCreditor(b) == FlLt(Zero, b.netAmount)
IsDebtor(b) == FlLt(b.netAmount, Zero)

RECURSIVE MapAmounts(_)
MapAmounts(q) ==
  IF q = <<>> THEN <<>>
  ELSE <<[userId |-> Head(q).userId, amount |-> FlAbs(Head(q).netAmount)]>>
       \o MapAmounts(Tail(q))

SortedCreditors(bal) == SortDesc(MapAmounts(SelectSeq(bal, IsCreditor)))
SortedDebtors(bal) == SortDesc(MapAmounts(SelectSeq(bal, IsDebtor)))

\* The edge-case test without the length test for a single entry.
ReturnsEarlyOnlyWhenEmpty(bal) ==
  \/ Len(bal) = 0
  \/ \A k \in 1..Len(bal) : bal[k].netAmount = Zero

\* The two early returns: at most one entry, or every netAmount === 0.
ReturnsEarly(bal) ==
  \/ Len(bal) <= 1
  \/ \A k \in 1..Len(bal) : bal[k].netAmount = Zero

\* A comparison with zero in place of the cent: amount < 0.
FullySettledBelowZero(amount) == FlLt(amount, Zero)

\* A working entry counts as fully settled: amount < 0.01.
FullySettled(amount) == FlLt(amount, Cents(1))

EarlyReturn ==
  /\ pc = "settle"
  /\ ReturnsEarly(balances)
  /\ settlements' = <<>>
  /\ pc' = "done"
  /\ UNCHANGED <<storeVars, splitVars, verdict, alternative, ledgerVars, balances, creditors, debtors, i, j>>

Partition ==
  /\ pc = "settle"
  /\ ~ReturnsEarly(balances)
  /\ creditors' = SortedCreditors(balances)
  /\ debtors' = SortedDebtors(balances)
  /\ settlements' = <<>>
  /\ i' = 1
  /\ j' = 1
  /\ pc' = "match"
  /\ UNCHANGED <<storeVars, splitVars, verdict, alternative, ledgerVars, balances>>

LoopGuard == i <= Len(creditors) /\ j <= Len(debtors)

\* One iteration of the matching loop.
MatchStep ==
  /\ pc = "match"
  /\ LoopGuard
  /\ LET creditor == creditors[i]
         debtor == debtors[j]
         settlementAmount == FlMin(creditor.amount, debtor.amount)
         creditorLeft == FlSub(creditor.amount, settlementAmount)
         debtorLeft == FlSub(debtor.amount, settlementAmount)
     IN /\ settlements' = Append(settlements,
                                 [fromUser |-> debtor.userId,
                                  toUser |-> creditor.userId,
                                  amount |-> roundToTwo(settlementAmount)])
        /\ creditors' = [creditors EXCEPT ![i].amount = creditorLeft]
        /\ debtors' = [debtors EXCEPT ![j].amount = debtorLeft]
        /\ i' = IF FullySettled(creditorLeft) THEN i + 1 ELSE i
        /\ j' = IF FullySettled(debtorLeft) THEN j + 1 ELSE j
  /\ UNCHANGED <<storeVars, splitVars, verdict, alternative, ledgerVars, balances, pc>>

ReturnSettlements ==
  /\ pc = "match"
  /\ ~LoopGuard
  /\ pc' = "done"
  /\ UNCHANGED <<storeVars, splitVars, verdict, alternative, ledgerVars, balances, plannerLocals>>

(***************************************************************************)
(* validateSettlements, getTheoreticalMinimum, isOptimalSettlement.        *)
(***************************************************************************)
\* finalBalances.get(u) || 0 on a Map held as a function.
GetOrZero(fb, u) == IF u \in DOMAIN fb THEN fb[u] ELSE Zero

MapSet(fb, u, v) == [x \in (DOMAIN fb) \cup {u} |-> IF x = u THEN v ELSE fb[x]]

RECURSIVE InitialBalances(_, _)
InitialBalances(fb, bal) ==
  IF bal = <<>> THEN fb
  ELSE InitialBalances(MapSet(fb, Head(bal).userId, Head(bal).netAmount), Tail(bal))

RECURSIVE ApplySettlements(_, _)
ApplySettlements(fb, st) ==
  IF st = <<>> THEN fb
  ELSE LET s == Head(st)
           fromBalance == GetOrZero(fb, s.fromUser)
           toBalance == GetOrZero(fb, s.toUser)
           fb1 == MapSet(fb, s.fromUser, FlAdd(fromBalance, s.amount))
           fb2 == MapSet(fb1, s.toUser, FlSub(toBalance, s.amount))
       IN ApplySettlements(fb2, Tail(st))

validateSettlements(bal, st) ==
  LET finalBalances == ApplySettlements(InitialBalances(EmptyMap, bal), st)
  IN \A u \in DOMAIN finalBalances : ~FlLt(Cents(1), FlAbs(finalBalances[u]))

\* A call of validateSettlements on the balances and the settlements.
Validate ==
  /\ pc = "validate"
  /\ verdict' = validateSettlements(balances, settlements)
  /\ pc' = "validated"
  /\ UNCHANGED <<storeVars, splitVars, alternative, ledgerVars, balances, plannerLocals>>

\* settlements.reduce((sum, s) => sum + s.amount, 0)
RECURSIVE SumAmounts(_, _)
SumAmounts(sum, st) ==
  IF st = <<>> THEN sum ELSE SumAmounts(FlAdd(sum, Head(st).amount), Tail(st))

getTotalSettlementAmount(st) == roundToTwo(SumAmounts(Zero, st))

getUserSettlements(st, userId) ==
  LET toPay == SelectSeq(st, LAMBDA s : s.fromUser = userId)
      toReceive == SelectSeq(st, LAMBDA s : s.toUser = userId)
  IN [toPay |-> toPay,
      toReceive |-> toReceive,
      netToPay |-> roundToTwo(SumAmounts(Zero, toPay)),
      netToReceive |-> roundToTwo(SumAmounts(Zero, toReceive))]

getTheoreticalMinimum(bal) ==
  LET nonZeroCount == Cardinality({k \in 1..Len(bal) : FlLt(Cents(1), FlAbs(bal[k].netAmount))})
  IN IF nonZeroCount - 1 > 0 THEN nonZeroCount - 1 ELSE 0

isOptimalSettlement(bal, st) == Len(st) = getTheoreticalMinimum(bal)

(***************************************************************************)
(* minimizeSettlementsAlternative.  The Map amounts is a sequence of       *)
(* entries [userId, amount] in insertion order; the empty userId '' of no  *)
(* candidate is the index 0.                                               *)
(***************************************************************************)
\* balances.filter(b => Math.abs(b.netAmount) > 0.01)
IsNonZero(b) == FlLt(Cents(1), FlAbs(b.netAmount))

\* amounts.has(userId) and the position of the key in the Map's order.
HasKey(amounts, userId) == \E k \in 1..Len(amounts) : amounts[k].userId = userId

KeyIndex(amounts, userId) == CHOOSE k \in 1..Len(amounts) : amounts[k].userId = userId

RECURSIVE InitialAmounts(_, _)
\* amounts.set(balance.userId, balance.netAmount) for each balance of bal.
InitialAmounts(amounts, bal) ==
  IF bal = <<>> THEN amounts
  ELSE LET b == Head(bal)
           next == IF HasKey(amounts, b.userId)
                   THEN [amounts EXCEPT ![KeyIndex(amounts, b.userId)].amount = b.netAmount]
                   ELSE Append(amounts, [userId |-> b.userId, amount |-> b.netAmount])
       IN InitialAmounts(next, Tail(bal))

RECURSIVE ScanMaxCreditor(_, _, _)
\* The index of maxCreditor after the entries from k on: amount > maxCreditorAmount,
\* where best = 0 stands for -Infinity.
ScanMaxCreditor(amounts, k, best) ==
  IF k > Len(amounts) THEN best
  ELSE IF best = 0 \/ FlLt(amounts[best].amount, amounts[k].amount)
       THEN ScanMaxCreditor(amounts, k + 1, k)
       ELSE ScanMaxCreditor(amounts, k + 1, best)

RECURSIVE ScanMaxDebtor(_, _, _)
\* The index of maxDebtor after the entries from k on:
\* amount < 0 && Math.abs(amount) > maxDebtorAmount.
ScanMaxDebtor(amounts, k, best) ==
  IF k > Len(amounts) THEN best
  ELSE IF FlLt(amounts[k].amount, Zero)
          /\ (best = 0 \/ FlLt(FlAbs(amounts[best].amount), FlAbs(amounts[k].amount)))
       THEN ScanMaxDebtor(amounts, k + 1, k)
       ELSE ScanMaxDebtor(amounts, k + 1, best)

\* amounts.delete(userId)
MapDelete(amounts, userId) == SelectSeq(amounts, LAMBDA e : e.userId # userId)

\* amounts.set(userId, amount): in place for a key of the Map, at the end for
\* a new one.
MapPut(amounts, userId, amount) ==
  IF HasKey(amounts, userId)
  THEN [amounts EXCEPT ![KeyIndex(amounts, userId)].amount = amount]
  ELSE Append(amounts, [userId |-> userId, amount |-> amount])

\* The update of one party: deleted when within a cent of zero, set otherwise.
DeleteOrSet(amounts, userId, amount) ==
  IF FlLt(FlAbs(amount), Cents(1))
  THEN MapDelete(amounts, userId)
  ELSE MapPut(amounts, userId, amount)

RECURSIVE AlternativeLoop(_, _)
\* while (amounts.size > 1) { ... }, returning the settlements.
AlternativeLoop(amounts, st) ==
  IF Len(amounts) <= 1 THEN st
  ELSE LET c == ScanMaxCreditor(amounts, 1, 0)
           d == ScanMaxDebtor(amounts, 1, 0)
       IN IF c = 0 \/ d = 0 THEN st
          ELSE LET maxCreditor == amounts[c].userId
                   maxDebtor == amounts[d].userId
                   maxCreditorAmount == amounts[c].amount
                   maxDebtorAmount == FlAbs(amounts[d].amount)
                   settlementAmount == FlMin(maxCreditorAmount, maxDebtorAmount)
                   newCreditorAmount == FlSub(maxCreditorAmount, settlementAmount)
                   newDebtorAmount == FlAdd(FlNeg(maxDebtorAmount), settlementAmount)
                   afterCreditor == DeleteOrSet(amounts, maxCreditor, newCreditorAmount)
               IN AlternativeLoop(
                    DeleteOrSet(afterCreditor, maxDebtor, newDebtorAmount),
                    Append(st, [fromUser |-> maxDebtor,
                                toUser |-> maxCreditor,
                                amount |-> roundToTwo(settlementAmount)]))

minimizeSettlementsAlternative(bal) ==
  LET nonZero == SelectSeq(bal, IsNonZero)
  IN IF Len(nonZero) = 0 THEN <<>>
     ELSE AlternativeLoop(InitialAmounts(<<>>, nonZero), <<>>)

\* A call of minimizeSettlementsAlternative on the balances minimizeSettlements
\* returned for.
Alternative ==
  /\ pc = "done"
  /\ alternative' = minimizeSettlementsAlternative(balances)
  /\ pc' = "compared"
  /\ UNCHANGED <<storeVars, splitVars, verdict, ledgerVars, balances, plannerLocals>>

(***************************************************************************)
(* Balance engine: calculateBalances.                                      *)
(*                                                                         *)
(* An expense record is [amount, paidBy, participants, splitDetails],      *)
(* without the fields the object lacks.  splitDetails maps a userId to a   *)
(* record that has an amount or lacks it.  The accumulator Map and the     *)
(* returned Map are sequences of entries in insertion order.               *)
(***************************************************************************)
HasEntry(bm, userId) == \E k \in 1..Len(bm) : bm[k].userId = userId

EntryOf(bm, userId) == CHOOSE k \in 1..Len(bm) : bm[k].userId = userId

\* getBalance: the entry of userId, created with zero totals when absent.
getBalance(bm, userId) ==
  IF HasEntry(bm, userId) THEN bm
  ELSE Append(bm, [userId |-> userId, paid |-> Zero, owed |-> Zero])

\* A guard that forgets the amounts below zero: !expense.amount
SkipsAmountUnlessNegative(e) ==
  IF ~Has(e, "amount") THEN TRUE ELSE e.amount = Zero

\* !expense.amount || expense.amount <= 0
SkipsAmount(e) ==
  IF ~Has(e, "amount") THEN TRUE
  ELSE e.amount = Zero \/ FlLeq(e.amount, Zero)

\* !expense.paidBy || !expense.participants || expense.participants.length === 0
SkipsShape(e) ==
  IF ~Has(e, "paidBy") THEN TRUE
  ELSE IF ~Has(e, "participants") THEN TRUE
  ELSE Len(e.participants) = 0

Skips(e) == SkipsAmount(e) \/ SkipsShape(e)

\* A payer whose entry is fetched and left as it was.
CreditPayerWithoutAdding(bm, e) == getBalance(bm, e.paidBy)

\* payerBalance.paid += expense.amount
CreditPayer(bm, e) ==
  LET bm1 == getBalance(bm, e.paidBy)
  IN [bm1 EXCEPT ![EntryOf(bm1, e.paidBy)].paid = FlAdd(@, e.amount)]

\* !splitDetail || splitDetail.amount === undefined
UsesFallback(e, participantId) ==
  IF participantId \notin DOMAIN e.splitDetails THEN TRUE
  ELSE ~Has(e.splitDetails[participantId], "amount")

OwedShare(e, participantId) ==
  IF UsesFallback(e, participantId)
  THEN FlDiv(e.amount, Len(e.participants))
  ELSE e.splitDetails[participantId].amount

RECURSIVE DebitParticipants(_, _, _)
\* The loop over expense.participants, from position k on.
DebitParticipants(bm, e, k) ==
  IF k > Len(e.participants) THEN bm
  ELSE LET participantId == e.participants[k]
           bm1 == getBalance(bm, participantId)
           bm2 == [bm1 EXCEPT ![EntryOf(bm1, participantId)].owed =
                                 FlAdd(@, OwedShare(e, participantId))]
       IN DebitParticipants(bm2, e, k + 1)

\* Reading expense.splitDetails[participantId] of a record that has no
\* splitDetails raises a TypeError.
Raises(e) == ~Has(e, "splitDetails")

\* The accumulator when the TypeError is raised: the payer is credited and the
\* first participant has its entry.
AtRaise(bm, e) == getBalance(CreditPayer(bm, e), e.participants[1])

ChargeExpense(bm, e) == DebitParticipants(CreditPayer(bm, e), e, 1)

\* The result with the net taken as owed minus paid.
BuildResultOwedMinusPaid(bm) ==
  [k \in 1..Len(bm) |->
     [userId |-> bm[k].userId,
      netAmount |-> roundToTwo(FlSub(bm[k].owed, bm[k].paid)),
      totalPaid |-> roundToTwo(bm[k].paid),
      totalOwed |-> roundToTwo(bm[k].owed)]]

\* The Map built from the accumulator, each figure rounded to two decimals.
BuildResult(bm) ==
  [k \in 1..Len(bm) |->
     [userId |-> bm[k].userId,
      netAmount |-> roundToTwo(FlSub(bm[k].paid, bm[k].owed)),
      totalPaid |-> roundToTwo(bm[k].paid),
      totalOwed |-> roundToTwo(bm[k].owed)]]

RECURSIVE RunLedger(_, _)
\* The for-of loop over the expenses es, started with the accumulator bm.
RunLedger(bm, es) ==
  IF es = <<>> THEN [threw |-> FALSE, map |-> bm]
  ELSE IF Skips(Head(es)) THEN RunLedger(bm, Tail(es))
  ELSE IF Raises(Head(es)) THEN [threw |-> TRUE]
  ELSE RunLedger(ChargeExpense(bm, Head(es)), Tail(es))

\* calculateBalances as a function: the returned Map, or the TypeError raised.
calculateBalances(es) ==
  LET run == RunLedger(<<>>, es)
  IN IF run.threw THEN run ELSE [threw |-> FALSE, map |-> BuildResult(run.map)]

\* balances.sort((a, b) => b.netAmount - a.netAmount): a stable sort,
\* descending by netAmount.
RECURSIVE InsertByNet(_, _)
InsertByNet(sorted, x) ==
  IF sorted = <<>> THEN <<x>>
  ELSE IF FlLt(Head(sorted).netAmount, x.netAmount) THEN <<x>> \o sorted
  ELSE <<Head(sorted)>> \o InsertByNet(Tail(sorted), x)

RECURSIVE SortByNet(_)
SortByNet(q) ==
  IF q = <<>> THEN <<>>
  ELSE InsertByNet(SortByNet(SubSeq(q, 1, Len(q) - 1)), q[Len(q)])

\* The sorted array of the Map's values; the TypeError passes through.
calculateBalancesArray(es) ==
  LET run == calculateBalances(es)
  IN IF run.threw THEN run ELSE [threw |-> FALSE, list |-> SortByNet(run.map)]

HasPositiveNet(b) == FlLt(Zero, b.netAmount)
HasNegativeNet(b) == FlLt(b.netAmount, Zero)
HasNoPositiveNet(b) == FlLeq(b.netAmount, Zero)

getCreditors(es) ==
  LET run == calculateBalancesArray(es)
  IN IF run.threw THEN run ELSE [threw |-> FALSE, list |-> SelectSeq(run.list, HasPositiveNet)]

\* The debtors with the settled users among them: netAmount <= 0.
getDebtorsOrSettled(es) ==
  LET run == calculateBalancesArray(es)
  IN IF run.threw THEN run ELSE [threw |-> FALSE, list |-> SelectSeq(run.list, HasNoPositiveNet)]

getDebtors(es) ==
  LET run == calculateBalancesArray(es)
  IN IF run.threw THEN run ELSE [threw |-> FALSE, list |-> SelectSeq(run.list, HasNegativeNet)]

\* The value null.
Null == [null |-> TRUE]

\* A lookup that takes a zero netAmount for a missing entry.
getUserBalanceUnlessSettled(es, userId) ==
  LET run == calculateBalances(es)
  IN IF run.threw THEN run
     ELSE [threw |-> FALSE,
           value |-> IF HasEntry(run.map, userId)
                        /\ run.map[EntryOf(run.map, userId)].netAmount # Zero
                     THEN run.map[EntryOf(run.map, userId)]
                     ELSE Null]

\* balances.get(userId) || null: a UserBalance object is never falsy.
getUserBalance(es, userId) ==
  LET run == calculateBalances(es)
  IN IF run.threw THEN run
     ELSE [threw |-> FALSE,
           value |-> IF HasEntry(run.map, userId)
                     THEN run.map[EntryOf(run.map, userId)]
                     ELSE Null]

RECURSIVE SumNet(_, _)
SumNet(sum, res) ==
  IF res = <<>> THEN sum ELSE SumNet(FlAdd(sum, Head(res).netAmount), Tail(res))

validateBalanceSum(res) == FlLt(FlAbs(roundToTwo(SumNet(Zero, res))), Cents(1))

Pending == pc = "calc" /\ idx < Len(expenses)

SkipExpense ==
  /\ Pending
  /\ Skips(expenses[idx + 1])
  /\ idx' = idx + 1
  /\ UNCHANGED <<storeVars, splitVars, verdict, alternative, expenses, balanceMap, result, balances, plannerLocals, pc>>

ProcessExpense ==
  /\ Pending
  /\ ~Skips(expenses[idx + 1])
  /\ ~Raises(expenses[idx + 1])
  /\ balanceMap' = ChargeExpense(balanceMap, expenses[idx + 1])
  /\ idx' = idx + 1
  /\ UNCHANGED <<storeVars, splitVars, verdict, alternative, expenses, result, balances, plannerLocals, pc>>

ThrowTypeError ==
  /\ Pending
  /\ ~Skips(expenses[idx + 1])
  /\ Raises(expenses[idx + 1])
  /\ balanceMap' = AtRaise(balanceMap, expenses[idx + 1])
  /\ pc' = "threw"
  /\ UNCHANGED <<storeVars, splitVars, verdict, alternative, expenses, idx, result, balances, plannerLocals>>

\* The return of calculateBalances; an empty list returns an empty Map.
ReturnBalances ==
  /\ pc = "calc"
  /\ idx = Len(expenses)
  /\ result' = BuildResult(balanceMap)
  /\ pc' = "returned"
  /\ UNCHANGED <<storeVars, splitVars, verdict, alternative, expenses, idx, balanceMap, balances, plannerLocals>>

\* The planner consumes the balance set the engine produced.
PlanFromBalances ==
  /\ pc = "returned"
  /\ balances' = [k \in 1..Len(result) |->
                    [userId |-> result[k].userId, netAmount |-> result[k].netAmount]]
  /\ pc' = "settle"
  /\ UNCHANGED <<storeVars, splitVars, verdict, alternative, ledgerVars, plannerLocals>>

(***************************************************************************)
(* Specification of the planner alone: minimizeSettlements applied to any  *)
(* list of up to MaxUsers balances with distinct userIds and whole-cent    *)
(* netAmounts between -MaxCents and MaxCents.                              *)
(***************************************************************************)
MaxUsers == 4
MaxCents == 2

AsBalances(q) == [k \in 1..Len(q) |-> [userId |-> k, netAmount |-> Cents(q[k])]]

InitPlanner(lists) ==
  /\ expenses = <<>>
  /\ idx = 0
  /\ balanceMap = <<>>
  /\ result = <<>>
  /\ balances \in {AsBalances(q) : q \in lists}
  /\ creditors = <<>>
  /\ debtors = <<>>
  /\ settlements = <<>>
  /\ i = 1
  /\ j = 1
  /\ pc = "settle"
  /\ verdict = FALSE
  /\ alternative = <<>>
  /\ splitCall = NoCall
  /\ splitOutcome = NoCall
  /\ db = NoStore
  /\ calls = <<>>

InitSettle == InitPlanner(SeqsUpTo((0 - MaxCents)..MaxCents, MaxUsers))

NextSettle == EarlyReturn \/ Partition \/ MatchStep \/ ReturnSettlements

SpecSettle == InitSettle /\ [][NextSettle]_vars

(***************************************************************************)
(* Specification of the planner on zero-sum lists: up to MaxZeroSumUsers   *)
(* balances of whole cents between -MaxZeroSumCents and MaxZeroSumCents    *)
(* whose sum is exactly zero.                                              *)
(***************************************************************************)
MaxZeroSumUsers == 5
MaxZeroSumCents == 4

RECURSIVE SumSeq(_)
SumSeq(q) == IF q = <<>> THEN 0 ELSE Head(q) + SumSeq(Tail(q))

ZeroSumCentLists ==
  LET range == (0 - MaxZeroSumCents)..MaxZeroSumCents
  IN {<<>>} \cup {Append(q, 0 - SumSeq(q)) :
                    q \in {r \in SeqsUpTo(range, MaxZeroSumUsers - 1) : 0 - SumSeq(r) \in range}}

InitZeroSum == InitPlanner(ZeroSumCentLists)

SpecZeroSum == InitZeroSum /\ [][NextSettle]_vars

(***************************************************************************)
(* Specification of the two planners on the same zero-sum list:            *)
(* minimizeSettlements, then minimizeSettlementsAlternative.               *)
(***************************************************************************)
NextAlternative == NextSettle \/ Alternative

(***************************************************************************)
(* Specification of the planner on any argument: lists of up to            *)
(* MaxAnyEntries balances of three users, a user listed more than once     *)
(* included, with net amounts of -0.02, 0.01, a third of a cent either     *)
(* way, or zero.                                                           *)
(***************************************************************************)
MaxAnyEntries == 3

AnyUsers == {1, 2, 3}

AnyAmounts == {Fl(k * (SubCent \div 3), 0) : k \in {0 - 6, 0 - 1, 0, 1, 3}}

InitSettleAny ==
  /\ expenses = <<>>
  /\ idx = 0
  /\ balanceMap = <<>>
  /\ result = <<>>
  /\ balances \in SeqsUpTo([userId : AnyUsers, netAmount : AnyAmounts], MaxAnyEntries)
  /\ creditors = <<>>
  /\ debtors = <<>>
  /\ settlements = <<>>
  /\ i = 1
  /\ j = 1
  /\ pc = "settle"
  /\ verdict = FALSE
  /\ alternative = <<>>
  /\ splitCall = NoCall
  /\ splitOutcome = NoCall
  /\ db = NoStore
  /\ calls = <<>>

SpecSettleAny == InitSettleAny /\ [][NextSettle]_vars

SpecAlternative == InitZeroSum /\ [][NextAlternative]_vars

(***************************************************************************)
(* Specification of validateSettlements on any plan: up to                 *)
(* MaxValidatedUsers balances of whole cents between -MaxValidatedCents    *)
(* and MaxValidatedCents, and up to MaxValidatedSettlements settlements of *)
(* 1 to MaxValidatedCents cents between MaxValidatedUsers users, listed in  *)
(* the balances or not, a user paying themselves included.                 *)
(***************************************************************************)
MaxValidatedUsers == 2
MaxValidatedCents == 4
MaxValidatedSettlements == 2

ValidatedPlans ==
  SeqsUpTo([fromUser : 1..MaxValidatedUsers,
            toUser : 1..MaxValidatedUsers,
            amount : {Cents(c) : c \in 1..MaxValidatedCents}],
           MaxValidatedSettlements)

InitValidate ==
  /\ expenses = <<>>
  /\ idx = 0
  /\ balanceMap = <<>>
  /\ result = <<>>
  /\ balances \in {AsBalances(q) :
                     q \in SeqsUpTo((0 - MaxValidatedCents)..MaxValidatedCents,
                                    MaxValidatedUsers)}
  /\ creditors = <<>>
  /\ debtors = <<>>
  /\ settlements \in ValidatedPlans
  /\ i = 1
  /\ j = 1
  /\ pc = "validate"
  /\ verdict = FALSE
  /\ alternative = <<>>
  /\ splitCall = NoCall
  /\ splitOutcome = NoCall
  /\ db = NoStore
  /\ calls = <<>>

SpecValidate == InitValidate /\ [][Validate]_vars

(***************************************************************************)
(* Split calculations: calculateSplit and the four calculations it         *)
(* dispatches to.  The splitDetails object is a function from userId to an *)
(* entry; percentages and share counts are small integers, which doubles   *)
(* hold exactly.                                                           *)
(***************************************************************************)
\* Math.floor: the largest integer not above x.
MathFloor(x) ==
  LET k == x.s \div Scale
  IN IF x.s % Scale = 0 /\ x.d < 0 THEN k - 1 ELSE k

\* x * n for a small non-negative integer n.
FlTimes(x, n) == Fl(n * x.s, n * x.d)

SplitInvalid(message) == [valid |-> FALSE, error |-> message]

SplitValid(details) == [valid |-> TRUE, splitDetails |-> details]

\* splitDetails[userId] = entry
DetailsPut(details, userId, entry) ==
  [u \in (DOMAIN details) \cup {userId} |-> IF u = userId THEN entry ELSE details[u]]

\* amount <= 0
AmountRefused(amount) == ~FlLt(Zero, amount)

RECURSIVE EqualShares(_, _, _, _, _)
\* participants.forEach((userId, index) => ...) of calculateEqualSplit, from
\* the index k (counted from 1) on.
EqualShares(details, participants, k, baseShare, remainder) ==
  IF k > Len(participants) THEN details
  ELSE LET share == IF k = 1 THEN roundToTwo(FlAdd(baseShare, remainder)) ELSE baseShare
       IN EqualShares(DetailsPut(details, participants[k], [amount |-> share]),
                      participants, k + 1, baseShare, remainder)

calculateEqualSplit(amount, participants) ==
  IF AmountRefused(amount) THEN SplitInvalid("Amount must be greater than 0")
  ELSE IF Len(participants) = 0 THEN SplitInvalid("At least one participant is required")
  ELSE IF Cardinality(Range(participants)) # Len(participants)
       THEN SplitInvalid("Duplicate participants not allowed")
  ELSE LET count == Len(participants)
           baseShare == Cents(MathFloor(FlMul100(FlDiv(amount, count))))
           remainder == roundToTwo(FlSub(amount, FlTimes(baseShare, count)))
       IN SplitValid(EqualShares(<<>>, participants, 1, baseShare, remainder))

\* The least index of a set of indices, 0 when there is none: where a
\* for-of loop over the participants first returns.
FirstOf(failing) ==
  IF failing = {} THEN 0 ELSE CHOOSE k \in failing : \A m \in failing : k <= m

\* The first participant without a number in the input.
FirstMissing(participants, input) ==
  FirstOf({k \in 1..Len(participants) : participants[k] \notin DOMAIN input})

RECURSIVE SumExact(_, _, _)
\* participants.reduce((acc, userId) => acc + exactAmounts[userId], 0)
SumExact(acc, participants, exactAmounts) ==
  IF participants = <<>> THEN acc
  ELSE SumExact(FlAdd(acc, exactAmounts[Head(participants)]), Tail(participants), exactAmounts)

RECURSIVE ExactShares(_, _, _)
ExactShares(details, participants, exactAmounts) ==
  IF participants = <<>> THEN details
  ELSE ExactShares(DetailsPut(details, Head(participants),
                              [amount |-> roundToTwo(exactAmounts[Head(participants)])]),
                   Tail(participants), exactAmounts)

calculateExactSplit(amount, participants, exactAmounts) ==
  IF AmountRefused(amount) THEN SplitInvalid("Amount must be greater than 0")
  ELSE IF Len(participants) = 0 THEN SplitInvalid("At least one participant is required")
  ELSE LET missing == FirstMissing(participants, exactAmounts)
           negative == FirstOf({k \in 1..Len(participants) :
                                  IF participants[k] \in DOMAIN exactAmounts
                                  THEN FlLt(exactAmounts[participants[k]], Zero)
                                  ELSE TRUE})
       IN IF negative # 0
          THEN IF missing = negative
               THEN SplitInvalid("Missing or invalid amount for participant")
               ELSE SplitInvalid("Amount cannot be negative for participant")
          ELSE LET sum == SumExact(Zero, participants, exactAmounts)
               IN IF FlLt(Cents(1), FlAbs(FlSub(roundToTwo(sum), roundToTwo(amount))))
                  THEN SplitInvalid("Exact amounts sum doesn't match total")
                  ELSE SplitValid(ExactShares(<<>>, participants, exactAmounts))

RECURSIVE SumInput(_, _)
\* totalPercentage += percentages[userId], totalShares += shares[userId]
SumInput(participants, input) ==
  IF participants = <<>> THEN 0
  ELSE input[Head(participants)] + SumInput(Tail(participants), input)

RECURSIVE PercentageShares(_, _, _, _, _, _)
\* participants.forEach((userId, index) => ...) of calculatePercentageSplit.
PercentageShares(details, allocatedAmount, amount, participants, k, percentages) ==
  IF k > Len(participants) THEN details
  ELSE LET percentage == percentages[participants[k]]
           last == k = Len(participants)
           userAmount == IF last THEN roundToTwo(FlSub(amount, allocatedAmount))
                         ELSE roundToTwo(FlDiv(FlTimes(amount, percentage), 100))
       IN PercentageShares(
            DetailsPut(details, participants[k],
                       [amount |-> userAmount, percentage |-> percentage]),
            IF last THEN allocatedAmount ELSE FlAdd(allocatedAmount, userAmount),
            amount, participants, k + 1, percentages)

calculatePercentageSplit(amount, participants, percentages) ==
  IF AmountRefused(amount) THEN SplitInvalid("Amount must be greater than 0")
  ELSE IF Len(participants) = 0 THEN SplitInvalid("At least one participant is required")
  ELSE LET missing == FirstMissing(participants, percentages)
           outside == FirstOf({k \in 1..Len(participants) :
                                 IF participants[k] \in DOMAIN percentages
                                 THEN \/ percentages[participants[k]] < 0
                                      \/ percentages[participants[k]] > 100
                                 ELSE TRUE})
       IN IF outside # 0
          THEN IF missing = outside
               THEN SplitInvalid("Missing or invalid percentage for participant")
               ELSE SplitInvalid("Percentage must be between 0 and 100 for participant")
          \* Math.abs(totalPercentage - 100) > 0.01, on whole percentages
          ELSE IF SumInput(participants, percentages) # 100
               THEN SplitInvalid("Percentages must sum to 100")
               ELSE SplitValid(PercentageShares(<<>>, Zero, amount, participants, 1,
                                                percentages))

RECURSIVE CustomShares(_, _, _, _, _, _, _)
\* participants.forEach((userId, index) => ...) of calculateCustomSplit.
CustomShares(details, allocatedAmount, amount, pricePerShare, participants, k, shares) ==
  IF k > Len(participants) THEN details
  ELSE LET userShares == shares[participants[k]]
           last == k = Len(participants)
           userAmount == IF last THEN roundToTwo(FlSub(amount, allocatedAmount))
                         ELSE roundToTwo(FlTimes(pricePerShare, userShares))
       IN CustomShares(
            DetailsPut(details, participants[k],
                       [amount |-> userAmount, shares |-> userShares]),
            IF last THEN allocatedAmount ELSE FlAdd(allocatedAmount, userAmount),
            amount, pricePerShare, participants, k + 1, shares)

calculateCustomSplit(amount, participants, shares) ==
  IF AmountRefused(amount) THEN SplitInvalid("Amount must be greater than 0")
  ELSE IF Len(participants) = 0 THEN SplitInvalid("At least one participant is required")
  ELSE LET missing == FirstMissing(participants, shares)
           negative == FirstOf({k \in 1..Len(participants) :
                                  IF participants[k] \in DOMAIN shares
                                  THEN shares[participants[k]] < 0 ELSE TRUE})
       IN IF negative # 0
          THEN IF missing = negative
               THEN SplitInvalid("Missing or invalid shares for participant")
               ELSE SplitInvalid("Shares cannot be negative for participant")
          ELSE LET totalShares == SumInput(participants, shares)
               IN IF totalShares = 0
                  THEN SplitInvalid("Total shares must be greater than 0")
                  ELSE SplitValid(CustomShares(<<>>, Zero, amount,
                                               FlDiv(amount, totalShares),
                                               participants, 1, shares))

\* The dispatch on splitType; a call without splitInput has no such field.
calculateSplit(call) ==
  IF call.splitType = "equal" THEN calculateEqualSplit(call.amount, call.participants)
  ELSE IF call.splitType = "exact"
       THEN IF ~Has(call, "splitInput")
            THEN SplitInvalid("Exact amounts required for exact split")
            ELSE calculateExactSplit(call.amount, call.participants, call.splitInput)
  ELSE IF call.splitType = "percentage"
       THEN IF ~Has(call, "splitInput")
            THEN SplitInvalid("Percentages required for percentage split")
            ELSE calculatePercentageSplit(call.amount, call.participants, call.splitInput)
  ELSE IF call.splitType = "custom"
       THEN IF ~Has(call, "splitInput")
            THEN SplitInvalid("Shares required for custom split")
            ELSE calculateCustomSplit(call.amount, call.participants, call.splitInput)
  ELSE SplitInvalid("Invalid split type")

\* A call of calculateSplit.
CalculateSplit ==
  /\ pc = "split"
  /\ splitOutcome' = calculateSplit(splitCall)
  /\ pc' = "splitDone"
  /\ UNCHANGED <<storeVars, splitCall, verdict, alternative, ledgerVars, balances, plannerLocals>>

(***************************************************************************)
(* Specification of calculateSplit: amounts of 0 to MaxSplitCents cents,   *)
(* participants lists of up to MaxParticipants of MaxParticipants users,   *)
(* a user listed twice included, and a split input that gives each user an *)
(* exact amount (-1 to MaxSplitCents cents), a percentage (0, 50, 100 or   *)
(* 150) or a share count (-1, 0 or 1), or nothing.                         *)
(***************************************************************************)
MaxSplitCents == 3

SplitUsers == 1..MaxParticipants

\* Every object that gives some of the users a value of V.
InputsOver(V) == UNION {[S -> V] : S \in SUBSET SplitUsers}

SplitCalls ==
  LET amounts == {Cents(c) : c \in 0..MaxSplitCents}
      lists == SeqsUpTo(SplitUsers, MaxParticipants)
      typed(type, inputs) ==
        [splitType : {type}, amount : amounts, participants : lists, splitInput : inputs]
  IN [splitType : {"equal", "exact", "percentage", "custom", "unknown"},
      amount : amounts, participants : lists]
       \cup typed("exact", InputsOver({Cents(c) : c \in (0 - 1)..MaxSplitCents}))
       \cup typed("percentage", InputsOver({0, 50, 100, 150}))
       \cup typed("custom", InputsOver({0 - 1, 0, 1}))

InitSplit ==
  /\ expenses = <<>>
  /\ idx = 0
  /\ balanceMap = <<>>
  /\ result = <<>>
  /\ balances = <<>>
  /\ creditors = <<>>
  /\ debtors = <<>>
  /\ settlements = <<>>
  /\ i = 1
  /\ j = 1
  /\ pc = "split"
  /\ verdict = FALSE
  /\ alternative = <<>>
  /\ splitCall \in SplitCalls
  /\ splitOutcome = NoCall
  /\ db = NoStore
  /\ calls = <<>>

SpecSplit == InitSplit /\ [][CalculateSplit]_vars

(***************************************************************************)
(* Firestore and the asynchronous functions on it.                         *)
(*                                                                         *)
(* A getDoc, a getDocs, an updateDoc and the commit of a write batch each  *)
(* take effect at one instant; a function runs from one await to the next  *)
(* without interruption, and the calls in flight interleave at their       *)
(* awaits.  A document id `${groupId}_${userId}` is the pair of the two.   *)
(* A call is the record of its function (op), the await it stands at (pc), *)
(* its arguments, its locals and what it returned.                         *)
(***************************************************************************)
\* Number of calls made in a run.
MaxCalls == 2

\* Number of groups documents.
MaxGroups == 2

CallIds == 1..MaxCalls

\* A local not assigned yet, and the result of a call that has not returned.
Unassigned == [unassigned |-> TRUE]

\* A call not made yet.
IdleCall == [op |-> "idle", pc |-> "idle", args |-> Unassigned, locals |-> Unassigned,
             returned |-> Unassigned]

NewCall(op, args) == [op |-> op, pc |-> "start", args |-> args, locals |-> Unassigned,
                      returned |-> Unassigned]

IsUnassigned(value) == Has(value, "unassigned")

\* The call stands at an await with new locals.
Await(call, at, locals) == [call EXCEPT !.pc = at, !.locals = locals]

\* return value
Return(call, value) == [call EXCEPT !.pc = "returned", !.returned = value]

\* { success: false, error } and { valid: false, error }
Failure(message) == [success |-> FALSE, error |-> message]

Invalid(message) == [valid |-> FALSE, error |-> message]

\* { success: true, groupId }
JoinedGroup(groupId) == [success |-> TRUE, groupId |-> groupId]

\* getDoc(doc(db, collection, id))
Snapshot(collection, id) ==
  IF id \in DOMAIN collection THEN [exists |-> TRUE, data |-> collection[id]]
  ELSE [exists |-> FALSE]

\* set(ref, data)
DocSet(collection, id, data) ==
  [x \in (DOMAIN collection) \cup {id} |-> IF x = id THEN data ELSE collection[x]]

\* delete(ref)
DocDelete(collection, id) == [x \in (DOMAIN collection) \ {id} |-> collection[x]]

\* The calls c makes its step to the call next.
Step(c, next) == calls' = [calls EXCEPT ![c] = next]

At(c, op, at) == calls[c].op = op /\ calls[c].pc = at

(***************************************************************************)
(* createGroup.  The name, description and currency of the input are       *)
(* valid; createdBy 0 is the empty string.  The new document id is one no  *)
(* groups document has.                                                    *)
(***************************************************************************)
CreateGroup(c, createdBy) ==
  /\ calls[c].op = "idle"
  /\ Cardinality(DOMAIN db.groups) < MaxGroups
  /\ LET call == NewCall("createGroup", [createdBy |-> createdBy])
         groupId == Cardinality(DOMAIN db.groups) + 1
     IN IF createdBy = 0
        THEN /\ Step(c, Return(call, Failure("User must be authenticated")))
             /\ UNCHANGED db
        ELSE /\ db' = [db EXCEPT
                  !.groups = DocSet(@, groupId,
                                    [memberCount |-> 1, totalExpenses |-> Zero]),
                  !.groupMembers = DocSet(@, <<groupId, createdBy>>,
                                          [role |-> "admin", status |-> "active"])]
             /\ Step(c, Return(call, JoinedGroup(groupId)))
  /\ UNCHANGED <<splitVars, verdict, alternative, ledgerVars, balances, plannerLocals, pc>>

(***************************************************************************)
(* validateInviteToken, as joinGroupWithToken calls it: the query by token *)
(* with the checks made on its snapshot, then the read of the group.  An   *)
(* invite whose maxUsage is null has no maxUsage field; expired says that  *)
(* the clock has passed expiresAt.                                         *)
(***************************************************************************)
InvitesWithToken(token) ==
  {id \in DOMAIN db.groupInvites : db.groupInvites[id].token = token}

\* validateInviteToken up to its second await.
QueryInvite(token) ==
  IF token = "" THEN Invalid("Invalid token")
  ELSE IF InvitesWithToken(token) = {} THEN Invalid("Invite not found")
  ELSE LET invite == db.groupInvites[CHOOSE id \in InvitesWithToken(token) : TRUE]
       IN IF ~invite.isActive THEN Invalid("This invite has been deactivated")
          ELSE IF invite.expired THEN Invalid("This invite has expired")
          ELSE IF Has(invite, "maxUsage") /\ invite.usageCount >= invite.maxUsage
               THEN Invalid("This invite has reached its usage limit")
          ELSE [valid |-> TRUE, invite |-> invite]

\* The clock passes the expiresAt of an invite.
Expire(inviteId) ==
  /\ inviteId \in DOMAIN db.groupInvites
  /\ ~db.groupInvites[inviteId].expired
  /\ db' = [db EXCEPT !.groupInvites[inviteId].expired = TRUE]
  /\ UNCHANGED <<calls, splitVars, verdict, alternative, ledgerVars, balances,
                 plannerLocals, pc>>

(***************************************************************************)
(* joinGroupWithToken.                                                     *)
(***************************************************************************)
\* Up to the first await of validateInviteToken and its continuation.
JoinValidateInvite(c, token, userId) ==
  /\ calls[c].op = "idle"
  /\ LET call == NewCall("joinGroupWithToken", [token |-> token, userId |-> userId])
         validation == QueryInvite(token)
     IN Step(c, IF userId = 0 THEN Return(call, Failure("User must be authenticated"))
                ELSE IF ~validation.valid THEN Return(call, Failure(validation.error))
                ELSE Await(call, "validateGroup", [invite |-> validation.invite]))
  /\ UNCHANGED <<db, splitVars, verdict, alternative, ledgerVars, balances,
                 plannerLocals, pc>>

\* The read of the group in validateInviteToken; the validation returns.
JoinValidateGroup(c) ==
  /\ At(c, "joinGroupWithToken", "validateGroup")
  /\ LET call == calls[c]
         invite == call.locals.invite
     IN Step(c, IF ~Snapshot(db.groups, invite.groupId).exists
                THEN Return(call, Failure("Group no longer exists"))
                ELSE Await(call, "existingMember",
                           [groupId |-> invite.groupId, inviteId |-> invite.inviteId]))
  /\ UNCHANGED <<db, splitVars, verdict, alternative, ledgerVars, balances,
                 plannerLocals, pc>>

\* Step 2: the read of the member document.
JoinGetMember(c) ==
  /\ At(c, "joinGroupWithToken", "existingMember")
  /\ LET call == calls[c]
         groupId == call.locals.groupId
         existingMember == Snapshot(db.groupMembers, <<groupId, call.args.userId>>)
         active == IF existingMember.exists
                   THEN existingMember.data.status = "active" ELSE FALSE
     IN Step(c, IF active THEN Return(call, JoinedGroup(groupId))
                ELSE Await(call, "details",
                           [groupId |-> groupId, inviteId |-> call.locals.inviteId,
                            existingMember |-> existingMember,
                            groupSnap |-> Unassigned, inviteSnap |-> Unassigned]))
  /\ UNCHANGED <<db, splitVars, verdict, alternative, ledgerVars, balances,
                 plannerLocals, pc>>

\* The continuation of Promise.all once both reads of step 3 are in.
AfterDetails(call, locals) ==
  IF IsUnassigned(locals.groupSnap) \/ IsUnassigned(locals.inviteSnap)
  THEN Await(call, "details", locals)
  ELSE IF ~locals.groupSnap.exists THEN Return(call, Failure("Group not found"))
  ELSE IF ~locals.inviteSnap.exists THEN Return(call, Failure("Invite not found"))
  ELSE Await(call, "commit", locals)

\* Step 3: the two reads of Promise.all take effect in either order.
JoinGetGroup(c) ==
  /\ At(c, "joinGroupWithToken", "details")
  /\ IsUnassigned(calls[c].locals.groupSnap)
  /\ LET call == calls[c]
     IN Step(c, AfterDetails(call, [call.locals EXCEPT
                  !.groupSnap = Snapshot(db.groups, call.locals.groupId)]))
  /\ UNCHANGED <<db, splitVars, verdict, alternative, ledgerVars, balances,
                 plannerLocals, pc>>

JoinGetInvite(c) ==
  /\ At(c, "joinGroupWithToken", "details")
  /\ IsUnassigned(calls[c].locals.inviteSnap)
  /\ LET call == calls[c]
     IN Step(c, AfterDetails(call, [call.locals EXCEPT
                  !.inviteSnap = Snapshot(db.groupInvites, call.locals.inviteId)]))
  /\ UNCHANGED <<db, splitVars, verdict, alternative, ledgerVars, balances,
                 plannerLocals, pc>>

\* The member was not an active member at step 2.
IsNewMember(existingMember) ==
  IF existingMember.exists THEN existingMember.data.status # "active" ELSE TRUE

\* Step 4: the commit of the batch, which writes the counts read at step 3
\* plus one.  An update of a missing document fails the whole batch.
JoinCommit(c) ==
  /\ At(c, "joinGroupWithToken", "commit")
  /\ LET call == calls[c]
         locals == call.locals
         groupId == locals.groupId
         inviteId == locals.inviteId
         group == locals.groupSnap.data
         invite == locals.inviteSnap.data
         newMember == IsNewMember(locals.existingMember)
     IN IF (newMember /\ groupId \notin DOMAIN db.groups)
           \/ inviteId \notin DOMAIN db.groupInvites
        THEN /\ Step(c, Return(call, Failure("Failed to join group")))
             /\ UNCHANGED db
        ELSE /\ db' = [db EXCEPT
                  !.groupMembers = DocSet(@, <<groupId, call.args.userId>>,
                                          [role |-> "member", status |-> "active"]),
                  !.groups = IF newMember
                             THEN [@ EXCEPT ![groupId].memberCount = group.memberCount + 1]
                             ELSE @,
                  !.groupInvites = [@ EXCEPT ![inviteId].usageCount = invite.usageCount + 1]]
             /\ Step(c, Return(call, JoinedGroup(groupId)))
  /\ UNCHANGED <<splitVars, verdict, alternative, ledgerVars, balances, plannerLocals, pc>>

(***************************************************************************)
(* revokeInvite.                                                           *)
(***************************************************************************)
RevokeGetInvite(c, inviteId, userId) ==
  /\ calls[c].op = "idle"
  /\ LET call == NewCall("revokeInvite", [inviteId |-> inviteId, userId |-> userId])
         inviteSnap == Snapshot(db.groupInvites, inviteId)
     IN Step(c, IF ~inviteSnap.exists THEN Return(call, Failure("Invite not found"))
                ELSE Await(call, "member", [invite |-> inviteSnap.data]))
  /\ UNCHANGED <<db, splitVars, verdict, alternative, ledgerVars, balances,
                 plannerLocals, pc>>

RevokeGetMember(c) ==
  /\ At(c, "revokeInvite", "member")
  /\ LET call == calls[c]
         memberSnap == Snapshot(db.groupMembers,
                                <<call.locals.invite.groupId, call.args.userId>>)
         admin == IF memberSnap.exists THEN memberSnap.data.role = "admin" ELSE FALSE
     IN Step(c, IF ~admin THEN Return(call, Failure("Only admins can revoke invites"))
                ELSE Await(call, "update", call.locals))
  /\ UNCHANGED <<db, splitVars, verdict, alternative, ledgerVars, balances,
                 plannerLocals, pc>>

\* updateDoc(inviteRef, { isActive: false }) and the return.
RevokeUpdate(c) ==
  /\ At(c, "revokeInvite", "update")
  /\ LET call == calls[c]
         inviteId == call.args.inviteId
     IN IF inviteId \notin DOMAIN db.groupInvites
        THEN /\ Step(c, Return(call, Failure("Failed to revoke invite")))
             /\ UNCHANGED db
        ELSE /\ db' = [db EXCEPT !.groupInvites[inviteId].isActive = FALSE]
             /\ Step(c, Return(call, [success |-> TRUE]))
  /\ UNCHANGED <<splitVars, verdict, alternative, ledgerVars, balances, plannerLocals, pc>>

(***************************************************************************)
(* Specification of the invites: the group 1 of user 1, who is its admin,  *)
(* with one invite (token "t1") of maxUsage 1, 2 or null, and possibly a   *)
(* user 3 who left the group.  Users 2 and 3 join with the token, with an  *)
(* unknown one or with none, users 1 and 2 revoke the invite or an unknown *)
(* one, user 2 creates groups.                                             *)
(***************************************************************************)
InviteUsers == {0, 2, 3}

Tokens == {"", "t0", "t1"}

FirstInvite == [inviteId |-> 1, groupId |-> 1, token |-> "t1", isActive |-> TRUE,
                expired |-> FALSE, usageCount |-> 0, createdBy |-> 1]

InitInvites ==
  /\ expenses = <<>>
  /\ idx = 0
  /\ balanceMap = <<>>
  /\ result = <<>>
  /\ balances = <<>>
  /\ creditors = <<>>
  /\ debtors = <<>>
  /\ settlements = <<>>
  /\ i = 1
  /\ j = 1
  /\ pc = "calls"
  /\ verdict = FALSE
  /\ alternative = <<>>
  /\ splitCall = NoCall
  /\ splitOutcome = NoCall
  /\ \E formerMember \in BOOLEAN, invite \in {FirstInvite}
                       \cup {[inviteId |-> 1, groupId |-> 1, token |-> "t1",
                              isActive |-> TRUE, expired |-> FALSE, usageCount |-> 0,
                              createdBy |-> 1, maxUsage |-> k] : k \in 1..MaxCalls} :
       db = [groups |-> DocSet(<<>>, 1, [memberCount |-> 1, totalExpenses |-> Zero]),
             groupMembers |->
               IF formerMember
               THEN DocSet(DocSet(<<>>, <<1, 1>>, [role |-> "admin", status |-> "active"]),
                           <<1, 3>>, [role |-> "member", status |-> "left"])
               ELSE DocSet(<<>>, <<1, 1>>, [role |-> "admin", status |-> "active"]),
             groupInvites |-> DocSet(<<>>, 1, invite),
             expenses |-> <<>>]
  /\ calls = [c \in CallIds |-> IdleCall]

NextInvites ==
  \/ \E c \in CallIds, createdBy \in {0, 2} : CreateGroup(c, createdBy)
  \/ \E inviteId \in {1} : Expire(inviteId)
  \/ \E c \in CallIds, token \in Tokens, userId \in InviteUsers :
       JoinValidateInvite(c, token, userId)
  \/ \E c \in CallIds : JoinValidateGroup(c)
  \/ \E c \in CallIds : JoinGetMember(c)
  \/ \E c \in CallIds : JoinGetGroup(c)
  \/ \E c \in CallIds : JoinGetInvite(c)
  \/ \E c \in CallIds : JoinCommit(c)
  \/ \E c \in CallIds, inviteId \in {1, 2}, userId \in {1, 2} :
       RevokeGetInvite(c, inviteId, userId)
  \/ \E c \in CallIds : RevokeGetMember(c)
  \/ \E c \in CallIds : RevokeUpdate(c)

SpecInvites == InitInvites /\ [][NextInvites]_vars

(***************************************************************************)
(* createExpense, updateExpense and deleteExpense.  The category, note and *)
(* date of an input are valid; a user id or an expense id 0 is the empty   *)
(* string.                                                                 *)
(***************************************************************************)
\* Expense documents that exist before the first call.
InitialExpenses == 1

\* validateExpenseInput
validateExpenseInput(input) ==
  IF input.groupId = 0 THEN Invalid("Group ID is required")
  ELSE IF AmountRefused(input.amount) THEN Invalid("Amount must be greater than 0")
  ELSE IF input.paidBy = 0 THEN Invalid("Payer (paidBy) is required")
  ELSE IF Len(input.participants) = 0 THEN Invalid("At least one participant is required")
  ELSE IF input.splitType \notin {"equal", "exact", "percentage", "custom"}
       THEN Invalid("Invalid split type")
  ELSE IF input.createdBy = 0 THEN Invalid("Creator (createdBy) is required")
  ELSE [valid |-> TRUE]

\* The member document of the user is there with status 'active'.
IsActiveMember(groupId, userId) ==
  LET memberSnap == Snapshot(db.groupMembers, <<groupId, userId>>)
  IN IF memberSnap.exists THEN memberSnap.data.status = "active" ELSE FALSE

\* The arguments of calculateSplit that an input carries.
SplitCallOf(input) ==
  IF Has(input, "splitInput")
  THEN [splitType |-> input.splitType, amount |-> input.amount,
        participants |-> input.participants, splitInput |-> input.splitInput]
  ELSE [splitType |-> input.splitType, amount |-> input.amount,
        participants |-> input.participants]

\* Steps 1 to 3: the validation of the input, the read of the creator's member
\* document, and the payer put first in the participants unless listed.
CreateExpenseGetCreator(c, input) ==
  /\ calls[c].op = "idle"
  /\ LET call == NewCall("createExpense", input)
         inputValidation == validateExpenseInput(input)
         participants == IF input.paidBy \in Range(input.participants)
                         THEN input.participants
                         ELSE <<input.paidBy>> \o input.participants
     IN Step(c, IF ~inputValidation.valid THEN Return(call, Failure(inputValidation.error))
                ELSE IF ~IsActiveMember(input.groupId, input.createdBy)
                     THEN Return(call, Failure("You are not a member of this group"))
                ELSE Await(call, "participant", [participants |-> participants, k |-> 1]))
  /\ UNCHANGED <<db, splitVars, verdict, alternative, ledgerVars, balances,
                 plannerLocals, pc>>

\* Step 4: the read of the member document of one participant.
CreateExpenseGetParticipant(c) ==
  /\ At(c, "createExpense", "participant")
  /\ LET call == calls[c]
         locals == call.locals
     IN Step(c, IF ~IsActiveMember(call.args.groupId, locals.participants[locals.k])
                THEN Return(call, Failure("Participant is not a member of this group"))
                ELSE IF locals.k < Len(locals.participants)
                     THEN Await(call, "participant", [locals EXCEPT !.k = @ + 1])
                ELSE Await(call, "group", [participants |-> locals.participants]))
  /\ UNCHANGED <<db, splitVars, verdict, alternative, ledgerVars, balances,
                 plannerLocals, pc>>

\* splitDetails with isSettled: userId === input.paidBy on each share.
SettledForPayer(details, paidBy) ==
  [u \in DOMAIN details |-> [amount |-> details[u].amount, isSettled |-> u = paidBy]]

\* Steps 5 to 7 once the group is read: the split and the expense document.
CreateExpenseAfterGroup(call, groupSnap, splitResult) ==
  IF ~groupSnap.exists THEN Return(call, Failure("Group not found"))
  ELSE IF ~splitResult.valid THEN Return(call, Failure(splitResult.error))
  ELSE Await(call, "commit",
         [groupData |-> groupSnap.data,
          expenseData |->
            [groupId |-> call.args.groupId, amount |-> call.args.amount,
             paidBy |-> call.args.paidBy, participants |-> call.locals.participants,
             splitType |-> call.args.splitType,
             splitDetails |-> SettledForPayer(splitResult.splitDetails, call.args.paidBy),
             createdBy |-> call.args.createdBy]])

\* Steps 5 to 7: the read of the group, the split, the expense document.
CreateExpenseGetGroup(c) ==
  /\ At(c, "createExpense", "group")
  /\ Step(c, CreateExpenseAfterGroup(
               calls[c], Snapshot(db.groups, calls[c].args.groupId),
               calculateSplit(SplitCallOf([calls[c].args EXCEPT
                                             !.participants = calls[c].locals.participants]))))
  /\ UNCHANGED <<db, splitVars, verdict, alternative, ledgerVars, balances,
                 plannerLocals, pc>>

\* Step 8: the commit of the batch.  The id of the new document is one that
\* no other document has or will have.
CreateExpenseCommit(c) ==
  /\ At(c, "createExpense", "commit")
  /\ LET call == calls[c]
         groupId == call.args.groupId
         expenseId == InitialExpenses + c
     IN IF groupId \notin DOMAIN db.groups
        THEN /\ Step(c, Return(call, Failure("Failed to create expense")))
             /\ UNCHANGED db
        ELSE /\ db' = [db EXCEPT
                  !.expenses = DocSet(@, expenseId, call.locals.expenseData),
                  !.groups = [@ EXCEPT ![groupId].totalExpenses =
                                FlAdd(call.locals.groupData.totalExpenses,
                                      call.args.amount)]]
             /\ Step(c, Return(call, [success |-> TRUE, expenseId |-> expenseId]))
  /\ UNCHANGED <<splitVars, verdict, alternative, ledgerVars, balances, plannerLocals, pc>>

\* getExpenseById
getExpenseById(expenseId) ==
  IF expenseId = 0 THEN Failure("Expense ID is required")
  ELSE IF ~Snapshot(db.expenses, expenseId).exists THEN Failure("Expense not found")
  ELSE [success |-> TRUE, expense |-> db.expenses[expenseId]]

\* The isSettled flag of a user in the splitDetails of a stored expense.
WasSettled(expense, userId) ==
  IF userId \in DOMAIN expense.splitDetails
  THEN expense.splitDetails[userId].isSettled ELSE FALSE

\* splitDetails with the isSettled flag that each share had before.
SettledAsBefore(details, existingExpense) ==
  [u \in DOMAIN details |->
     [amount |-> details[u].amount, isSettled |-> WasSettled(existingExpense, u)]]

\* updateExpense up to its second await: the read of the expense, the
\* validation, the split and the queued update of the expense document.
UpdateExpenseAfterRead(call, expenseResult, splitResult, amountDifference) ==
  IF ~expenseResult.success THEN Return(call, Failure(expenseResult.error))
  ELSE IF AmountRefused(call.args.amount)
       THEN Return(call, Failure("Amount must be a positive number"))
  ELSE IF Len(call.args.participants) = 0
       THEN Return(call, Failure("At least one participant is required"))
  ELSE IF ~splitResult.valid THEN Return(call, Failure(splitResult.error))
  ELSE Await(call, IF amountDifference # Zero THEN "group" ELSE "commit",
             [existingExpense |-> expenseResult.expense,
              splitDetails |-> SettledAsBefore(splitResult.splitDetails,
                                               expenseResult.expense),
              amountDifference |-> amountDifference,
              groupUpdate |-> Unassigned])

UpdateExpenseGetExpense(c, input) ==
  /\ calls[c].op = "idle"
  /\ Step(c, UpdateExpenseAfterRead(
               NewCall("updateExpense", input), getExpenseById(input.expenseId),
               calculateSplit(SplitCallOf(input)),
               FlSub(input.amount, getExpenseById(input.expenseId).expense.amount)))
  /\ UNCHANGED <<db, splitVars, verdict, alternative, ledgerVars, balances,
                 plannerLocals, pc>>

\* The read of the group and the queued update of its totalExpenses.
UpdateExpenseGetGroup(c) ==
  /\ At(c, "updateExpense", "group")
  /\ LET call == calls[c]
         groupSnap == Snapshot(db.groups, call.locals.existingExpense.groupId)
     IN Step(c, Await(call, "commit",
                  IF groupSnap.exists
                  THEN [call.locals EXCEPT !.groupUpdate =
                          [totalExpenses |-> FlAdd(groupSnap.data.totalExpenses,
                                                   call.locals.amountDifference)]]
                  ELSE call.locals))
  /\ UNCHANGED <<db, splitVars, verdict, alternative, ledgerVars, balances,
                 plannerLocals, pc>>

\* The queued update of the group's totalExpenses, if any, applied.
ApplyGroupUpdate(groups, groupId, groupUpdate) ==
  IF IsUnassigned(groupUpdate) THEN groups
  ELSE [groups EXCEPT ![groupId].totalExpenses = groupUpdate.totalExpenses]

\* The commit of the batch; it fails when a document it updates is missing.
UpdateExpenseCommit(c) ==
  /\ At(c, "updateExpense", "commit")
  /\ LET call == calls[c]
         input == call.args
         groupId == call.locals.existingExpense.groupId
     IN IF input.expenseId \notin DOMAIN db.expenses
           \/ (~IsUnassigned(call.locals.groupUpdate) /\ groupId \notin DOMAIN db.groups)
        THEN /\ Step(c, Return(call, Failure("Failed to update expense")))
             /\ UNCHANGED db
        ELSE /\ db' = [db EXCEPT
                  !.expenses[input.expenseId] =
                     [@ EXCEPT !.amount = input.amount, !.paidBy = input.paidBy,
                               !.participants = input.participants,
                               !.splitType = input.splitType,
                               !.splitDetails = call.locals.splitDetails],
                  !.groups = ApplyGroupUpdate(@, groupId, call.locals.groupUpdate)]
             /\ Step(c, Return(call, [success |-> TRUE]))
  /\ UNCHANGED <<splitVars, verdict, alternative, ledgerVars, balances, plannerLocals, pc>>

\* Math.max(0, x)
MaxWithZero(x) == IF FlLt(x, Zero) THEN Zero ELSE x

\* deleteExpense up to its second await: the read of the expense.
DeleteExpenseGetExpense(c, expenseId, userId, isAdmin) ==
  /\ calls[c].op = "idle"
  /\ LET call == NewCall("deleteExpense",
                         [expenseId |-> expenseId, userId |-> userId, isAdmin |-> isAdmin])
         expenseResult == getExpenseById(expenseId)
     IN Step(c, IF expenseId = 0 THEN Return(call, Failure("Expense ID is required"))
                ELSE IF userId = 0 THEN Return(call, Failure("User ID is required"))
                ELSE IF ~expenseResult.success
                     THEN Return(call, Failure(expenseResult.error))
                ELSE Await(call, "group", [expense |-> expenseResult.expense,
                                           groupUpdate |-> Unassigned]))
  /\ UNCHANGED <<db, splitVars, verdict, alternative, ledgerVars, balances,
                 plannerLocals, pc>>

\* The read of the group and the queued update of its totalExpenses.
DeleteExpenseGetGroup(c) ==
  /\ At(c, "deleteExpense", "group")
  /\ LET call == calls[c]
         groupSnap == Snapshot(db.groups, call.locals.expense.groupId)
     IN Step(c, Await(call, "commit",
                  IF groupSnap.exists
                  THEN [call.locals EXCEPT !.groupUpdate =
                          [totalExpenses |->
                             MaxWithZero(FlSub(groupSnap.data.totalExpenses,
                                               call.locals.expense.amount))]]
                  ELSE call.locals))
  /\ UNCHANGED <<db, splitVars, verdict, alternative, ledgerVars, balances,
                 plannerLocals, pc>>

\* The commit of the batch: a delete of a missing document succeeds.
DeleteExpenseCommit(c) ==
  /\ At(c, "deleteExpense", "commit")
  /\ LET call == calls[c]
         groupId == call.locals.expense.groupId
     IN IF ~IsUnassigned(call.locals.groupUpdate) /\ groupId \notin DOMAIN db.groups
        THEN /\ Step(c, Return(call, Failure("Failed to delete expense")))
             /\ UNCHANGED db
        ELSE /\ db' = [db EXCEPT
                  !.expenses = DocDelete(@, call.args.expenseId),
                  !.groups = ApplyGroupUpdate(@, groupId, call.locals.groupUpdate)]
             /\ Step(c, Return(call, [success |-> TRUE]))
  /\ UNCHANGED <<splitVars, verdict, alternative, ledgerVars, balances, plannerLocals, pc>>

(***************************************************************************)
(* Specification of the expenses: the group 1 with its admin, user 1, and  *)
(* the member user 2 (user 3 is no member), with one expense of 0.02 that  *)
(* user 1 created, and MaxCalls calls that create an expense, update the   *)
(* stored or an unknown expense, or delete one, as a user who may or may   *)
(* not pass for an admin.                                                  *)
(***************************************************************************)
\* Largest amount of an input, in cents.
MaxExpenseCents == 3

FirstExpense ==
  [groupId |-> 1, amount |-> Cents(2), paidBy |-> 1, participants |-> <<1, 2>>,
   splitType |-> "equal",
   splitDetails |-> SettledForPayer(calculateEqualSplit(Cents(2), <<1, 2>>).splitDetails, 1),
   createdBy |-> 1]

CreateInputs ==
  [groupId : {1}, amount : {Cents(0), Cents(MaxExpenseCents)}, paidBy : {1, 2},
   participants : {<<1>>, <<2, 3>>}, splitType : {"equal"}, createdBy : {1, 3}]

UpdateInputs ==
  [expenseId : {1, 1 + InitialExpenses + MaxCalls},
   amount : {Cents(0), Cents(2), Cents(MaxExpenseCents)}, paidBy : {1},
   participants : {<<>>, <<1, 2>>}, splitType : {"equal"},
   updatedBy : {1, 2}, isAdmin : BOOLEAN]

InitExpenses ==
  /\ expenses = <<>>
  /\ idx = 0
  /\ balanceMap = <<>>
  /\ result = <<>>
  /\ balances = <<>>
  /\ creditors = <<>>
  /\ debtors = <<>>
  /\ settlements = <<>>
  /\ i = 1
  /\ j = 1
  /\ pc = "calls"
  /\ verdict = FALSE
  /\ alternative = <<>>
  /\ splitCall = NoCall
  /\ splitOutcome = NoCall
  /\ db = [groups |-> DocSet(<<>>, 1, [memberCount |-> 2, totalExpenses |-> Cents(2)]),
           groupMembers |->
             DocSet(DocSet(<<>>, <<1, 1>>, [role |-> "admin", status |-> "active"]),
                    <<1, 2>>, [role |-> "member", status |-> "active"]),
           groupInvites |-> <<>>,
           expenses |-> DocSet(<<>>, 1, FirstExpense)]
  /\ calls = [c \in CallIds |-> IdleCall]

NextExpenses ==
  \/ \E c \in CallIds, input \in CreateInputs : CreateExpenseGetCreator(c, input)
  \/ \E c \in CallIds : CreateExpenseGetParticipant(c)
  \/ \E c \in CallIds : CreateExpenseGetGroup(c)
  \/ \E c \in CallIds : CreateExpenseCommit(c)
  \/ \E c \in CallIds, input \in UpdateInputs : UpdateExpenseGetExpense(c, input)
  \/ \E c \in CallIds : UpdateExpenseGetGroup(c)
  \/ \E c \in CallIds : UpdateExpenseCommit(c)
  \/ \E c \in CallIds, expenseId \in {0, 1}, userId \in {0, 1, 2}, isAdmin \in BOOLEAN :
       DeleteExpenseGetExpense(c, expenseId, userId, isAdmin)
  \/ \E c \in CallIds : DeleteExpenseGetGroup(c)
  \/ \E c \in CallIds : DeleteExpenseCommit(c)

SpecExpenses == InitExpenses /\ [][NextExpenses]_vars

(***************************************************************************)
(* Expense records of the ledger specifications.  Amounts are in cents.    *)
(***************************************************************************)
Share(c) == [amount |-> Cents(c)]

\* A splitDetails entry that carries no amount.
ShareWithoutAmount == [isSettled |-> FALSE]

Expense(c, payer, participantIds, details) ==
  [amount |-> Cents(c), paidBy |-> payer,
   participants |-> participantIds, splitDetails |-> details]

\* Records the engine processes: explicit splits, equal-split fallbacks (whole
\* and half cents), a zero share, an entry without amount, a participant
\* without entry, an entry for a non-participant, a repeated participant.
ProcessedRecords ==
  { Expense(2, 1, <<1, 2>>, (1 :> Share(1)) @@ (2 :> Share(1))),
    Expense(3, 1, <<2>>, (2 :> Share(3))),
    Expense(1, 2, <<1>>, (1 :> Share(1))),
    Expense(8, 1, <<3, 4>>, (3 :> Share(4)) @@ (4 :> Share(4))),
    Expense(1, 3, <<1, 2>>, (1 :> Share(0)) @@ (2 :> Share(1))),
    Expense(2, 2, <<1, 2>>, EmptyMap),
    Expense(1, 1, <<1, 2>>, EmptyMap),
    Expense(9, 3, <<1, 2, 3>>, EmptyMap),
    Expense(2, 1, <<1, 2>>, (1 :> ShareWithoutAmount) @@ (2 :> Share(1))),
    Expense(2, 2, <<1, 2>>, (1 :> Share(2))),
    Expense(2, 1, <<2>>, (2 :> Share(1)) @@ (3 :> Share(1))),
    Expense(2, 1, <<2, 2>>, (2 :> Share(2))) }

\* Records the engine skips: no amount, a zero or negative amount, no paidBy,
\* an empty participants list, no participants.
SkippedRecords ==
  { [paidBy |-> 1, participants |-> <<2>>, splitDetails |-> EmptyMap],
    Expense(0, 3, <<3>>, (3 :> Share(0))),
    Expense(-2, 1, <<2>>, (2 :> Share(-2))),
    [amount |-> Cents(2), participants |-> <<1, 2>>, splitDetails |-> EmptyMap],
    Expense(2, 4, <<>>, EmptyMap),
    [amount |-> Cents(2), paidBy |-> 4, splitDetails |-> EmptyMap],
    [paidBy |-> 4, participants |-> <<3>>] }

\* A record with a payer and participants but no splitDetails.
RecordsWithoutSplitDetails ==
  { [amount |-> Cents(2), paidBy |-> 1, participants |-> <<1, 2>>] }

LedgerPool == ProcessedRecords \cup SkippedRecords \cup RecordsWithoutSplitDetails

\* Records whose equal shares of half a cent add up differently in different
\* orders, with a skipped one and one without splitDetails.
OrderPool ==
  { Expense(1, 1, <<1>>, EmptyMap),
    Expense(1, 1, <<1, 2>>, EmptyMap),
    Expense(2, 1, <<1>>, EmptyMap),
    Expense(2, 2, <<2, 1>>, (1 :> Share(1)) @@ (2 :> Share(1))),
    Expense(0, 2, <<1>>, EmptyMap),
    [amount |-> Cents(1), paidBy |-> 2, participants |-> <<2, 1>>] }

(***************************************************************************)
(* Specification of the engine followed by the planner: calculateBalances  *)
(* on a list of up to MaxExpenses records of LedgerPool, then              *)
(* minimizeSettlements on the balances it returned.                        *)
(***************************************************************************)
MaxExpenses == 2

InitLedger(lists) ==
  /\ expenses \in lists
  /\ idx = 0
  /\ balanceMap = <<>>
  /\ result = <<>>
  /\ balances = <<>>
  /\ creditors = <<>>
  /\ debtors = <<>>
  /\ settlements = <<>>
  /\ i = 1
  /\ j = 1
  /\ pc = "calc"
  /\ verdict = FALSE
  /\ alternative = <<>>
  /\ splitCall = NoCall
  /\ splitOutcome = NoCall
  /\ db = NoStore
  /\ calls = <<>>

Init == InitLedger(SeqsUpTo(LedgerPool, MaxExpenses))

Next ==
  \/ SkipExpense
  \/ ProcessExpense
  \/ ThrowTypeError
  \/ ReturnBalances
  \/ PlanFromBalances
  \/ EarlyReturn
  \/ Partition
  \/ MatchStep
  \/ ReturnSettlements

Spec == Init /\ [][Next]_vars

(***************************************************************************)
(* Specification of the engine on reordered input: lists of up to          *)
(* MaxOrderedExpenses records of OrderPool.                                *)
(***************************************************************************)
MaxOrderedExpenses == 3

InitOrder == InitLedger(SeqsUpTo(OrderPool, MaxOrderedExpenses))

SpecOrder == InitOrder /\ [][Next]_vars

(***************************************************************************)
(* Specification of the engine under its derived views: lists of up to     *)
(* MaxViewedExpenses records of ViewPool, whose balances hold creditors,   *)
(* debtors and settled users in several insertion orders, with users that  *)
(* only a skipped record names.                                            *)
(***************************************************************************)
ViewPool ==
  { Expense(1, 3, <<1, 2>>, (1 :> Share(0)) @@ (2 :> Share(1))),
    Expense(2, 2, <<2>>, (2 :> Share(2))),
    Expense(3, 1, <<2>>, (2 :> Share(3))),
    Expense(1, 2, <<1>>, (1 :> Share(1))),
    Expense(1, 1, <<1, 2>>, EmptyMap),
    Expense(9, 3, <<1, 2, 3>>, EmptyMap),
    Expense(0, 4, <<4>>, (4 :> Share(0))),
    [amount |-> Cents(2), participants |-> <<1, 2>>, splitDetails |-> EmptyMap],
    [amount |-> Cents(2), paidBy |-> 1, participants |-> <<1, 2>>] }

MaxViewedExpenses == 2

InitViews == InitLedger(SeqsUpTo(ViewPool, MaxViewedExpenses))

SpecViews == InitViews /\ [][Next]_vars

(***************************************************************************)
(* Exact quantities the claims about the planner speak of.                 *)
(***************************************************************************)
RECURSIVE NetCentsSum(_)
\* The exact sum, in cents, of the netAmounts of a whole-cent balance list.
NetCentsSum(bal) ==
  IF bal = <<>> THEN 0 ELSE CentsOf(Head(bal).netAmount) + NetCentsSum(Tail(bal))

ZeroSum(bal) == NetCentsSum(bal) = 0

DistinctIds(bal) == \A a, b \in 1..Len(bal) : bal[a].userId = bal[b].userId => a = b

NonZeroEntries(bal) == {k \in 1..Len(bal) : bal[k].netAmount # Zero}

RECURSIVE ReplayCents(_, _, _)
\* The balance of user u, in cents, after replaying the settlements st from c.
ReplayCents(c, u, st) ==
  IF st = <<>> THEN c
  ELSE LET s == Head(st)
           paid == IF s.fromUser = u THEN CentsOf(s.amount) ELSE 0
           got == IF s.toUser = u THEN CentsOf(s.amount) ELSE 0
       IN ReplayCents(c + paid - got, u, Tail(st))

RECURSIVE SumOver(_, _)
SumOver(bal, S) ==
  IF S = {} THEN 0
  ELSE LET k == CHOOSE x \in S : TRUE
       IN CentsOf(bal[k].netAmount) + SumOver(bal, S \ {k})

RECURSIVE MaxZeroSumParts(_, _)
\* The largest number of groups into which the entries S of a zero-sum list
\* split with every group summing to zero.
MaxZeroSumParts(bal, S) ==
  IF S = {} THEN 0
  ELSE LET k == CHOOSE x \in S : TRUE
           groups == {T \in SUBSET S : k \in T /\ SumOver(bal, T) = 0}
           counts == {1 + MaxZeroSumParts(bal, S \ T) : T \in groups}
       IN CHOOSE c \in counts : \A other \in counts : other <= c

\* The fewest payments that bring every balance of a zero-sum list to zero: a
\* group of m entries summing to zero is cleared by m - 1 payments, and the
\* payments of any clearing list connect its users into such groups.
FewestPayments(bal) ==
  Cardinality(NonZeroEntries(bal)) - MaxZeroSumParts(bal, NonZeroEntries(bal))

Returned == pc = "done"

(***************************************************************************)
(* C3.  For a balance list whose netAmounts sum to zero, the number of     *)
(* settlements minimizeSettlements returns equals getTheoreticalMinimum,   *)
(* i.e. isOptimalSettlement is true of the returned list.                  *)
(***************************************************************************)
C3_Optimality ==
  (Returned /\ ZeroSum(balances)) => isOptimalSettlement(balances, settlements)

\* A zero-sum list on which the planner ran its loop and returned a plan.
C3_Witness ==
  Returned /\ ZeroSum(balances) /\ Len(settlements) >= 2

(***************************************************************************)
(* C4.  For a zero-sum list of whole cents with distinct userIds, no list  *)
(* of payments that clears every balance is shorter than the list          *)
(* minimizeSettlements returns.                                            *)
(***************************************************************************)
C4_MinimumCardinality ==
  (Returned /\ ZeroSum(balances) /\ DistinctIds(balances))
    => Len(settlements) <= FewestPayments(balances)

C4_Witness ==
  Returned /\ ZeroSum(balances) /\ DistinctIds(balances) /\ Len(settlements) >= 3

(***************************************************************************)
(* C5.  For a list with distinct userIds and whole-cent netAmounts summing *)
(* to exactly zero, replaying the returned settlements (payer plus amount, *)
(* payee minus amount) leaves every balance within one cent of zero.       *)
(***************************************************************************)
C5_ReplayWithinCent ==
  (Returned /\ ZeroSum(balances) /\ DistinctIds(balances))
    => \A k \in 1..Len(balances) :
         LET left == ReplayCents(CentsOf(balances[k].netAmount), balances[k].userId, settlements)
         IN left >= -1 /\ left <= 1

C5_Witness ==
  Returned /\ ZeroSum(balances) /\ DistinctIds(balances) /\ Len(balances) >= 4
    /\ Len(settlements) >= 2

(***************************************************************************)
(* C6.  Every iteration of the matching loop advances the creditor cursor, *)
(* the debtor cursor or both; the loop terminates; and the result holds at *)
(* most n - 1 settlements, n being the number of entries whose netAmount   *)
(* is not zero.                                                            *)
(***************************************************************************)
\* A step of the loop: one iteration, from the loop back to its guard.
Iteration == pc = "match" /\ pc' = "match"

IterationAdvances ==
  [][Iteration => (i' >= i /\ j' >= j /\ (i' > i \/ j' > j))]_vars

\* Cursor positions the loop can still pass.  It is never negative and every
\* iteration lowers it, so the loop ends; the guards of the planner's steps
\* cover every state short of the return, so the planner then returns.
Remaining == (Len(creditors) + 1 - i) + (Len(debtors) + 1 - j)

Terminates ==
  /\ [](Remaining >= 0)
  /\ [][Iteration => Remaining' < Remaining]_vars
  /\ [](pc \in {"settle", "match", "done"})

AtMostNMinusOne ==
  Returned => Len(settlements) <= Cardinality(NonZeroEntries(balances)) - 1

\* A list with no non-zero entry yields no settlement: the bound max(0, n - 1).
AtMostNMinusOneOrNone ==
  Returned => LET n == Cardinality(NonZeroEntries(balances))
              IN Len(settlements) <= (IF n >= 1 THEN n - 1 ELSE 0)

\* C6 as stated: every iteration advances a cursor, the loop terminates, and
\* the result holds at most n - 1 settlements.
C6_AdvanceTerminateWithinNMinusOne ==
  IterationAdvances /\ Terminates /\ []AtMostNMinusOne

\* C6 with the bound max(0, n - 1): every iteration advances a cursor, the
\* loop terminates, and the result holds at most n - 1 settlements, or none
\* when no entry is non-zero.
C6_AdvanceTerminateBound ==
  IterationAdvances /\ Terminates /\ []AtMostNMinusOneOrNone

\* The loop ran n - 1 iterations on a list of n >= 3 non-zero entries.
C6_Witness ==
  /\ Returned
  /\ Cardinality(NonZeroEntries(balances)) >= 3
  /\ Len(settlements) = Cardinality(NonZeroEntries(balances)) - 1
(***************************************************************************)
(* Quantities the claims about the engine speak of.                        *)
(***************************************************************************)
\* calculateBalances has ended: it returned its Map or raised.
Ended == pc \in {"returned", "threw"}

BalancesReturned == pc = "returned"

\* What the run of calculateBalances on expenses produced.
Outcome == IF pc = "threw" THEN [threw |-> TRUE] ELSE [threw |-> FALSE, map |-> result]

\* A Map as a mapping: its entries, whatever their insertion order.
AsMapping(outcome) ==
  IF outcome.threw THEN outcome ELSE [threw |-> FALSE, entries |-> Range(outcome.map)]

AmountNotPositive(e) == IF Has(e, "amount") THEN ~FlLt(Zero, e.amount) ELSE TRUE

PaidByMissing(e) == ~Has(e, "paidBy")

NoParticipant(e) == IF Has(e, "participants") THEN Len(e.participants) = 0 ELSE TRUE

\* The records the specification says are skipped.
Malformed(e) == AmountNotPositive(e) \/ PaidByMissing(e) \/ NoParticipant(e)

WellFormed(e) == ~Malformed(e)

\* The userIds a record names.
UsersNamed(e) ==
  (IF Has(e, "paidBy") THEN {e.paidBy} ELSE {})
    \cup (IF Has(e, "participants") THEN Range(e.participants) ELSE {})

RECURSIVE SumShares(_, _)
\* The exact sum, in cents, of the splitDetails amounts of the users in S.
SumShares(details, S) ==
  IF S = {} THEN 0
  ELSE LET u == CHOOSE x \in S : TRUE
           c == IF Has(details[u], "amount") THEN CentsOf(details[u].amount) ELSE 0
       IN c + SumShares(details, S \ {u})

\* The splitDetails amounts of the record sum to its amount.
SplitSumsToAmount(e) ==
  IF Has(e, "splitDetails") /\ Has(e, "amount")
  THEN SumShares(e.splitDetails, DOMAIN e.splitDetails) = CentsOf(e.amount)
  ELSE FALSE

\* The record names each participant once and carries a splitDetails amount
\* for every participant, these amounts summing to the record's amount.
SplitsExactly(e) ==
  IF Has(e, "splitDetails")
  THEN /\ \A a, b \in 1..Len(e.participants) :
            e.participants[a] = e.participants[b] => a = b
       /\ \A u \in Range(e.participants) : ~UsesFallback(e, u)
       /\ SumShares(e.splitDetails, Range(e.participants)) = CentsOf(e.amount)
  ELSE FALSE

(***************************************************************************)
(* C1.  Conservation: for a list of expenses in which the splitDetails     *)
(* amounts of every expense sum to its amount, the netAmounts that         *)
(* calculateBalances returns sum to zero within 0.01, i.e.                 *)
(* validateBalanceSum of the result is true.                               *)
(***************************************************************************)
C1_Conservation ==
  (BalancesReturned /\ \A k \in 1..Len(expenses) : SplitSumsToAmount(expenses[k]))
    => validateBalanceSum(result)

\* C1 for the lists in which every record that is not skipped names each
\* participant once and carries an amount for every participant, these
\* amounts summing to the record's amount: validateBalanceSum of the result
\* is true.
C1_ConservationOfExactSplits ==
  (BalancesReturned
     /\ \A k \in 1..Len(expenses) : Skips(expenses[k]) \/ SplitsExactly(expenses[k]))
    => validateBalanceSum(result)

\* Two exactly split expenses were accumulated over at least three users.
C1_Witness ==
  /\ BalancesReturned
  /\ Len(expenses) = 2
  /\ \A k \in 1..Len(expenses) : ~Skips(expenses[k]) /\ SplitsExactly(expenses[k])
  /\ Len(result) >= 3
  /\ \E k \in 1..Len(result) : result[k].netAmount # Zero

(***************************************************************************)
(* C2.  Settlement correctness: for the balances calculateBalances         *)
(* returns, validateSettlements(balances, minimizeSettlements(balances))   *)
(* is true.  The claim speaks of any list of expense records; it is asked  *)
(* here of the lists whose every processed record splits its amount        *)
(* exactly among its participants, so that the balances sum to zero.       *)
(***************************************************************************)
C2_SettlementCorrectness ==
  (Returned /\ \A k \in 1..Len(expenses) : Skips(expenses[k]) \/ SplitsExactly(expenses[k]))
    => validateSettlements(balances, settlements)

\* An exactly split ledger over four users was planned with two settlements.
C2_Witness ==
  /\ Returned
  /\ Len(expenses) = 2
  /\ \A k \in 1..Len(expenses) : ~Skips(expenses[k]) /\ SplitsExactly(expenses[k])
  /\ Len(balances) = 4
  /\ Len(settlements) >= 2

(***************************************************************************)
(* C7.  calculateBalances skips a record whose amount is not a positive    *)
(* number, whose paidBy is missing or whose participants list is empty:    *)
(* the result is that of the list without those records, and no entry is   *)
(* created for a user only such records name.                              *)
(***************************************************************************)
C7_SkipsMalformed ==
  Ended =>
    /\ Outcome = calculateBalances(SelectSeq(expenses, WellFormed))
    /\ BalancesReturned =>
         \A k \in 1..Len(result) :
           \E n \in 1..Len(expenses) :
             WellFormed(expenses[n]) /\ result[k].userId \in UsersNamed(expenses[n])

\* A malformed record naming a user of its own stood beside a processed one,
\* and the result has an entry for the users of the processed record only.
C7_Witness ==
  /\ BalancesReturned
  /\ Len(result) >= 2
  /\ \E m, n \in 1..Len(expenses) :
       /\ Malformed(expenses[m])
       /\ WellFormed(expenses[n])
       /\ \E u \in UsersNamed(expenses[m]) : ~HasEntry(result, u)

(***************************************************************************)
(* C8.  calculateBalances never raises: for every list of expense records, *)
(* also with records that carry no split detail at all or lack the entry   *)
(* of a participant, it returns a balance mapping.                         *)
(***************************************************************************)
C8_NeverRaises == pc # "threw"

\* A record whose participant has no splitDetails entry was processed.
C8_Witness ==
  /\ BalancesReturned
  /\ \E k \in 1..Len(expenses) :
       /\ ~Skips(expenses[k])
       /\ \E u \in Range(expenses[k].participants) : UsesFallback(expenses[k], u)
(***************************************************************************)
(* C9.  For each participant of an expense that is not skipped,            *)
(* calculateBalances adds to the participant's owed total the              *)
(* participant's splitDetails amount when one is present and defined, and  *)
(* amount / participants.length otherwise; an expense among three          *)
(* participants with no explicit split makes each owe a third of it.       *)
(***************************************************************************)
OwedOf(bm, userId) == IF HasEntry(bm, userId) THEN bm[EntryOf(bm, userId)].owed ELSE Zero

\* The share the claim gives a participant.
ClaimedShare(e, userId) ==
  IF Has(e, "splitDetails")
  THEN IF userId \in DOMAIN e.splitDetails
       THEN IF Has(e.splitDetails[userId], "amount")
            THEN e.splitDetails[userId].amount
            ELSE FlDiv(e.amount, Len(e.participants))
       ELSE FlDiv(e.amount, Len(e.participants))
  ELSE FlDiv(e.amount, Len(e.participants))

RECURSIVE AddedTimes(_, _, _)
\* The total after adding the share once for each of n listings.
AddedTimes(total, share, n) ==
  IF n = 0 THEN total ELSE AddedTimes(FlAdd(total, share), share, n - 1)

Listings(e, userId) == Cardinality({k \in 1..Len(e.participants) : e.participants[k] = userId})

OwedIsAdded ==
  (Pending /\ WellFormed(expenses[idx + 1])) =>
     LET e == expenses[idx + 1]
     IN \A u \in Range(e.participants) :
          OwedOf(balanceMap', u)
            = AddedTimes(OwedOf(balanceMap, u), ClaimedShare(e, u), Listings(e, u))

\* 0.09 among three participants with no explicit split: each owes 0.03.
ThirdsExample ==
  (BalancesReturned /\ expenses = <<Expense(9, 3, <<1, 2, 3>>, EmptyMap)>>)
    => \A k \in 1..Len(result) : result[k].totalOwed = Cents(3)

C9_OwedIncrement == [][OwedIsAdded]_vars /\ []ThirdsExample

\* The equal-split fallback was applied to three participants.
C9_Witness ==
  /\ BalancesReturned
  /\ expenses = <<Expense(9, 3, <<1, 2, 3>>, EmptyMap)>>
  /\ Len(result) = 3

(***************************************************************************)
(* C10.  The mapping calculateBalances returns does not depend on the      *)
(* order of the expenses nor on the order of the identifiers inside a      *)
(* participants list: every permutation yields the same mapping.           *)
(***************************************************************************)
Reorder(q, f) == [k \in 1..Len(q) |-> q[f[k]]]

ParticipantOrders(e) ==
  IF Has(e, "participants")
  THEN {[e EXCEPT !.participants = Reorder(e.participants, f)] :
          f \in Permutations(1..Len(e.participants))}
  ELSE {e}

RECURSIVE WithParticipantOrders(_)
WithParticipantOrders(es) ==
  IF es = <<>> THEN {<<>>}
  ELSE {<<e>> \o rest : e \in ParticipantOrders(Head(es)),
                        rest \in WithParticipantOrders(Tail(es))}

Reorderings(es) ==
  UNION {WithParticipantOrders(Reorder(es, f)) : f \in Permutations(1..Len(es))}

C10_OrderIndependent ==
  Ended => \A es \in Reorderings(expenses) :
             AsMapping(calculateBalances(es)) = AsMapping(Outcome)

\* Three processed expenses, one of them with two participants, were summed.
C10_Witness ==
  /\ BalancesReturned
  /\ Len(expenses) = 3
  /\ \A k \in 1..Len(expenses) : ~Skips(expenses[k])
  /\ \E k \in 1..Len(expenses) : Len(expenses[k].participants) = 2
  /\ Cardinality(Range(expenses)) = 3

(***************************************************************************)
(* C11.  For every UserBalance calculateBalances emits, the emitted        *)
(* netAmount equals the emitted totalPaid minus the emitted totalOwed, and *)
(* its sign classifies the user: positive for a creditor (paid more than   *)
(* owed), negative for a debtor, zero for a settled user.                  *)
(***************************************************************************)
NetIsPaidMinusOwed(b) ==
  /\ CentsOf(b.netAmount) = CentsOf(b.totalPaid) - CentsOf(b.totalOwed)
  /\ FlLt(Zero, b.netAmount) <=> FlLt(b.totalOwed, b.totalPaid)
  /\ FlLt(b.netAmount, Zero) <=> FlLt(b.totalPaid, b.totalOwed)
  /\ b.netAmount = Zero <=> b.totalPaid = b.totalOwed

WholeCentShares(e) ==
  \A u \in Range(e.participants) : OwedShare(e, u).s % SubCent = 0

EdgeCaseInput(bal) ==
  \/ Len(bal) < 2
  \/ \A k \in 1..Len(bal) : bal[k].netAmount = Zero

C12_EdgeCasesReturnEmpty ==
  (pc \in {"match", "done"} /\ EdgeCaseInput(balances))
    => (pc = "done" /\ settlements = <<>>)

\* The function returned on two or more entries that are all zero.
C12_Witness ==
  /\ Returned
  /\ Len(balances) >= 2
  /\ \A k \in 1..Len(balances) : balances[k].netAmount = Zero

\* The function returned on a single entry that is not zero.
C12_WitnessSingleEntry ==
  /\ Returned
  /\ Len(balances) = 1
  /\ balances[1].netAmount # Zero

(***************************************************************************)
(* C13.  When every non-zero balance of the input has the same sign (only  *)
(* creditors or only debtors), minimizeSettlements returns an empty list   *)
(* and raises no error: the loop body, the only place that reads an        *)
(* element of the creditor or debtor list, is never entered.               *)
(***************************************************************************)
OnlyCreditors(bal) == \A k \in 1..Len(bal) : FlLeq(Zero, bal[k].netAmount)
OnlyDebtors(bal) == \A k \in 1..Len(bal) : FlLeq(bal[k].netAmount, Zero)
SameSign(bal) == OnlyCreditors(bal) \/ OnlyDebtors(bal)

C13_SameSignReturnsEmpty ==
  (SameSign(balances) /\ pc \in {"match", "done"})
    => (settlements = <<>> /\ (pc = "match" => ~LoopGuard))

\* The function returned after partitioning a list of creditors and settled
\* users only, with two creditors or more.
C13_Witness ==
  /\ Returned
  /\ OnlyCreditors(balances)
  /\ Len(creditors) >= 2
  /\ \E k \in 1..Len(balances) : balances[k].netAmount = Zero

\* The function returned after partitioning a list of debtors only.
C13_WitnessOnlyDebtors ==
  /\ Returned
  /\ OnlyDebtors(balances)
  /\ Len(debtors) >= 2

(***************************************************************************)
(* C14.  When the input has exactly one creditor and k debtors whose debts *)
(* sum to the creditor's credit, minimizeSettlements returns exactly k     *)
(* settlements, one per debtor, each directed to that creditor with amount *)
(* equal to the debtor's debt, listed in descending order of debt with     *)
(* equal debts kept in input order.                                        *)
(***************************************************************************)
CreditorEntries(bal) == {k \in 1..Len(bal) : FlLt(Zero, bal[k].netAmount)}
DebtorEntries(bal) == {k \in 1..Len(bal) : FlLt(bal[k].netAmount, Zero)}

OneCreditor(bal) ==
  /\ Cardinality(CreditorEntries(bal)) = 1
  /\ DebtorEntries(bal) # {}
  /\ ZeroSum(bal)

\* One settlement per debtor, in the stable descending order of the debts.
EachDebtorPays(bal) ==
  LET creditor == bal[CHOOSE k \in CreditorEntries(bal) : TRUE]
      owing == SortDesc(MapAmounts(SelectSeq(bal, LAMBDA b : FlLt(b.netAmount, Zero))))
  IN [k \in 1..Len(owing) |->
        [fromUser |-> owing[k].userId,
         toUser |-> creditor.userId,
         amount |-> owing[k].amount]]

C14_OneCreditorOnePaymentPerDebtor ==
  (Returned /\ OneCreditor(balances))
    => /\ Len(settlements) = Cardinality(DebtorEntries(balances))
       /\ settlements = EachDebtorPays(balances)

\* The function returned the k payments of a list with one creditor and
\* three debtors, two of them with equal debts.
C14_Witness ==
  /\ Returned
  /\ OneCreditor(balances)
  /\ Cardinality(DebtorEntries(balances)) = 3
  /\ \E a, b \in DebtorEntries(balances) :
       a # b /\ balances[a].netAmount = balances[b].netAmount
  /\ settlements = EachDebtorPays(balances)

(***************************************************************************)
(* C15.  For every balance list, getTheoreticalMinimum(balances) equals    *)
(* max(0, k - 1) where k is the number of entries whose netAmount is not   *)
(* zero: the entries minimizeSettlements treats as a creditor or a debtor, *)
(* balances of exactly one cent included.                                  *)
(***************************************************************************)
CountedEntries(bal) == Cardinality(CreditorEntries(bal) \cup DebtorEntries(bal))

C15_TheoreticalMinimum ==
  getTheoreticalMinimum(balances) =
    (IF CountedEntries(balances) > 1 THEN CountedEntries(balances) - 1 ELSE 0)

\* The planner returned on a list with three entries above one cent, where
\* the theoretical minimum is the count less one.
C15_Witness ==
  /\ Returned
  /\ CountedEntries(balances) = 3
  /\ getTheoreticalMinimum(balances) = 2

(***************************************************************************)
(* C16.  validateSettlements(balances, settlements) returns true exactly   *)
(* when, after starting every user at their original netAmount (a user     *)
(* who appears only in settlements starts at 0) and applying each          *)
(* settlement as payer += amount and payee -= amount, every resulting      *)
(* balance is within 1 cent of zero; a plan that leaves any user more than *)
(* one cent from zero is rejected.                                         *)
(***************************************************************************)
Validated == pc = "validated"

\* The original netAmount of user u in cents, 0 for a user not in the list.
StartCents(bal, u) ==
  IF \E k \in 1..Len(bal) : bal[k].userId = u
  THEN CentsOf(bal[CHOOSE k \in 1..Len(bal) : bal[k].userId = u].netAmount)
  ELSE 0

PlanUsers(bal, st) ==
  {bal[k].userId : k \in 1..Len(bal)}
    \cup {st[k].fromUser : k \in 1..Len(st)} \cup {st[k].toUser : k \in 1..Len(st)}

WithinOneCent(c) == c >= 0 - 1 /\ c <= 1

ReplayLeavesWithinOneCent(bal, st) ==
  \A u \in PlanUsers(bal, st) : WithinOneCent(ReplayCents(StartCents(bal, u), u, st))

C16_ValidateExactlyWithinOneCent ==
  Validated => (verdict <=> ReplayLeavesWithinOneCent(balances, settlements))

\* The second half alone: a plan leaving a user more than one cent from zero
\* is rejected.
C16_RejectsMoreThanOneCent ==
  (Validated /\ ~ReplayLeavesWithinOneCent(balances, settlements)) => ~verdict

\* A plan of two settlements that leaves a user exactly one cent from zero
\* and pays a user absent from the balances was accepted.
C16_Witness ==
  /\ Validated
  /\ verdict
  /\ Len(settlements) = 2
  /\ \E u \in PlanUsers(balances, settlements) :
       ReplayCents(StartCents(balances, u), u, settlements) = 1
  /\ \E k \in 1..Len(settlements) :
       \A n \in 1..Len(balances) : balances[n].userId # settlements[k].toUser

(***************************************************************************)
(* C17.  validateBalanceSum(balances) returns true whenever the netAmounts *)
(* sum to within 1 cent of zero (a total rounding error of one cent is     *)
(* allowed, the tolerance validateSettlements applies) and false when the  *)
(* sum is further from zero; on an empty mapping it returns true.          *)
(***************************************************************************)
C17_SumWithinOneCent ==
  BalancesReturned
    => /\ validateBalanceSum(result) <=> WithinOneCent(NetCentsSum(result))
       /\ result = <<>> => validateBalanceSum(result)

\* The parts of the claim away from the one-cent boundary: true on a zero
\* sum and on the empty mapping, false on a sum of two cents or more.
C17_SumAwayFromOneCent ==
  BalancesReturned
    => /\ NetCentsSum(result) = 0 => validateBalanceSum(result)
       /\ ~WithinOneCent(NetCentsSum(result)) => ~validateBalanceSum(result)

\* A mapping of three balances that sum to zero was returned.
C17_Witness ==
  /\ BalancesReturned
  /\ Len(result) = 3
  /\ \A k \in 1..Len(result) : result[k].netAmount # Zero
  /\ NetCentsSum(result) = 0
  /\ validateBalanceSum(result)

\* A mapping whose balances sum to more than one cent was returned.
C17_WitnessFurther ==
  /\ BalancesReturned
  /\ ~WithinOneCent(NetCentsSum(result))
  /\ ~validateBalanceSum(result)

(***************************************************************************)
(* C18.  The derived views agree with calculateBalances on the same        *)
(* expenses: calculateBalancesArray returns exactly the mapping's entries  *)
(* in non-increasing netAmount order, getCreditors returns exactly the     *)
(* entries with netAmount > 0 and getDebtors exactly those with            *)
(* netAmount < 0, so the two are disjoint and a user with zero net balance *)
(* is in neither.                                                          *)
(***************************************************************************)
\* The list q holds exactly the entries S, each once.
HoldsExactly(q, S) == Range(q) = S /\ Len(q) = Cardinality(S)

NonIncreasing(q) ==
  \A k \in 1..(Len(q) - 1) : ~FlLt(q[k].netAmount, q[k + 1].netAmount)

C18_DerivedViewsAgree ==
  BalancesReturned =>
    LET sorted == calculateBalancesArray(expenses)
        owed == getCreditors(expenses)
        owing == getDebtors(expenses)
    IN /\ ~sorted.threw /\ ~owed.threw /\ ~owing.threw
       /\ HoldsExactly(sorted.list, Range(result))
       /\ NonIncreasing(sorted.list)
       /\ HoldsExactly(owed.list, {b \in Range(result) : CentsOf(b.netAmount) > 0})
       /\ HoldsExactly(owing.list, {b \in Range(result) : CentsOf(b.netAmount) < 0})
       /\ Range(owed.list) \cap Range(owing.list) = {}
       /\ \A b \in Range(result) :
            CentsOf(b.netAmount) = 0 => b \notin Range(owed.list) \cup Range(owing.list)

\* The mapping was returned with a creditor, a debtor and a settled user, and
\* with an entry inserted before one of larger netAmount, so that the sorted
\* view reorders it and both filters drop an entry.
C18_Witness ==
  /\ BalancesReturned
  /\ \E a, b, c \in 1..Len(result) :
       /\ CentsOf(result[a].netAmount) < 0
       /\ CentsOf(result[b].netAmount) = 0
       /\ CentsOf(result[c].netAmount) > 0
  /\ \E a, b \in 1..Len(result) :
       a < b /\ FlLt(result[a].netAmount, result[b].netAmount)
  /\ calculateBalancesArray(expenses).list # result
  /\ getCreditors(expenses).list # <<>>
  /\ getDebtors(expenses).list # <<>>

(***************************************************************************)
(* C19.  getUserBalance(expenses, userId) returns null exactly when the    *)
(* user is neither the payer nor a participant of any non-skipped expense; *)
(* otherwise it returns the same UserBalance that calculateBalances holds  *)
(* for that user, also when that user's netAmount is zero.                 *)
(***************************************************************************)
\* The userIds asked for: those the records name, skipped records included,
\* and one that no record names.
ProbedUsers(es) == {0} \cup UNION {UsersNamed(es[n]) : n \in 1..Len(es)}

\* u is the payer or a participant of a record that is not skipped.
NamedByProcessed(es, u) ==
  \E n \in 1..Len(es) : ~Skips(es[n]) /\ u \in UsersNamed(es[n])

C19_UserBalanceOrNull ==
  BalancesReturned =>
    \A u \in ProbedUsers(expenses) :
      LET found == getUserBalance(expenses, u)
      IN /\ ~found.threw
         /\ found.value = Null <=> ~NamedByProcessed(expenses, u)
         /\ NamedByProcessed(expenses, u)
              => \E k \in 1..Len(result) : result[k].userId = u /\ found.value = result[k]

\* A mapping was returned in which one named user has a zero netAmount, while
\* another user is named by a skipped record only and one by none.
C19_Witness ==
  /\ BalancesReturned
  /\ \E k \in 1..Len(result) :
       /\ result[k].netAmount = Zero
       /\ getUserBalance(expenses, result[k].userId).value = result[k]
  /\ \E u \in ProbedUsers(expenses) :
       /\ \E n \in 1..Len(expenses) : Skips(expenses[n]) /\ u \in UsersNamed(expenses[n])
       /\ getUserBalance(expenses, u).value = Null

(***************************************************************************)
(* C20.  In the plan minimizeSettlements returns for a zero-sum balance    *)
(* list with distinct userIds, getUserSettlements gives every debtor an    *)
(* empty toReceive and netToPay equal to the absolute value of their       *)
(* netAmount, gives every creditor an empty toPay and netToReceive equal   *)
(* to their netAmount, and getTotalSettlementAmount equals the sum of the  *)
(* positive netAmounts.                                                    *)
(***************************************************************************)
ZeroSumPlanReturned == Returned /\ ZeroSum(balances) /\ DistinctIds(balances)

PositiveCentsSum(bal) == SumOver(bal, CreditorEntries(bal))

C20_PlanSettlesEachUser ==
  ZeroSumPlanReturned =>
    /\ \A k \in DebtorEntries(balances) :
         LET own == getUserSettlements(settlements, balances[k].userId)
         IN own.toReceive = <<>> /\ own.netToPay = FlAbs(balances[k].netAmount)
    /\ \A k \in CreditorEntries(balances) :
         LET own == getUserSettlements(settlements, balances[k].userId)
         IN own.toPay = <<>> /\ own.netToReceive = balances[k].netAmount
    /\ CentsOf(getTotalSettlementAmount(settlements)) = PositiveCentsSum(balances)

\* The part of the claim about directions: a debtor receives nothing and a
\* creditor pays nothing.
C20_DebtorsPayCreditorsReceive ==
  ZeroSumPlanReturned =>
    /\ \A k \in DebtorEntries(balances) :
         getUserSettlements(settlements, balances[k].userId).toReceive = <<>>
    /\ \A k \in CreditorEntries(balances) :
         getUserSettlements(settlements, balances[k].userId).toPay = <<>>

\* A plan of three settlements between two creditors and two debtors was
\* returned that pays every user their balance.
C20_Witness ==
  /\ ZeroSumPlanReturned
  /\ Cardinality(CreditorEntries(balances)) = 2
  /\ Cardinality(DebtorEntries(balances)) = 2
  /\ Len(settlements) = 3
  /\ \A k \in DebtorEntries(balances) :
       getUserSettlements(settlements, balances[k].userId).netToPay
         = FlAbs(balances[k].netAmount)
  /\ \A k \in CreditorEntries(balances) :
       getUserSettlements(settlements, balances[k].userId).netToReceive
         = balances[k].netAmount
  /\ CentsOf(getTotalSettlementAmount(settlements)) = PositiveCentsSum(balances)

(***************************************************************************)
(* C21.  minimizeSettlementsAlternative produces the same optimal result   *)
(* as minimizeSettlements: for every zero-sum balance list it returns a    *)
(* plan with the same number of settlements as minimizeSettlements, and    *)
(* that plan also passes validateSettlements.                              *)
(***************************************************************************)
Compared == pc = "compared"

C21_AlternativeSameResult ==
  (Compared /\ ZeroSum(balances))
    => /\ Len(alternative) = Len(settlements)
       /\ validateSettlements(balances, alternative)

\* The second half alone: the alternative plan passes validateSettlements.
C21_AlternativeValidates ==
  (Compared /\ ZeroSum(balances)) => validateSettlements(balances, alternative)

\* The two planners agree on lists without a balance of one cent, where no
\* remainder falls under the cent.
C21_Witness ==
  /\ Compared
  /\ ZeroSum(balances)
  /\ Len(settlements) = 3
  /\ Len(alternative) = 3
  /\ alternative # settlements
  /\ validateSettlements(balances, alternative)
  /\ validateSettlements(balances, settlements)

(***************************************************************************)
(* Split calculations.                                                     *)
(***************************************************************************)
\* calculateSplit has returned a valid outcome.
ValidSplit == pc = "splitDone" /\ splitOutcome.valid

RECURSIVE SumShareCents(_, _)
\* The sum, in cents, of the share amounts of the entries of the users in S.
SumShareCents(details, S) ==
  IF S = {} THEN 0
  ELSE LET u == CHOOSE x \in S : TRUE
       IN CentsOf(details[u].amount) + SumShareCents(details, S \ {u})

\* C22: every valid outcome of calculateSplit has one splitDetails entry for
\* each participant, no share amount below zero, and share amounts that sum
\* to the expense amount within one cent.
C22_ValidSplitIsWellFormed ==
  ValidSplit =>
    LET details == splitOutcome.splitDetails
        total == SumShareCents(details, DOMAIN details)
        amount == CentsOf(splitCall.amount)
    IN /\ DOMAIN details = Range(splitCall.participants)
       /\ \A u \in DOMAIN details : FlLeq(Zero, details[u].amount)
       /\ total - amount <= 1
       /\ amount - total <= 1

\* A valid percentage split among three participants is reached.
C22_Witness ==
  /\ ValidSplit
  /\ splitCall.splitType = "percentage"
  /\ Cardinality(Range(splitCall.participants)) = 3

(***************************************************************************)
(* Invites and the member count.                                           *)
(***************************************************************************)
\* The call c of joinGroupWithToken has committed its batch and returned.
JoinCommitted(c) ==
  /\ At(c, "joinGroupWithToken", "returned")
  /\ calls[c].returned.success
  /\ Has(calls[c].locals, "inviteSnap")

\* The users that the calls of joinGroupWithToken added through the invite.
AddedThrough(inviteId) ==
  {calls[c].args.userId :
     c \in {x \in CallIds : IF JoinCommitted(x) THEN calls[x].locals.inviteId = inviteId
                            ELSE FALSE}}

\* C23: an invite of maxUsage k never has a usageCount above k, and at most k
\* users are added to the group through it.
C23_UsageLimit ==
  \A inviteId \in DOMAIN db.groupInvites :
    LET invite == db.groupInvites[inviteId]
    IN Has(invite, "maxUsage") =>
         /\ invite.usageCount <= invite.maxUsage
         /\ Cardinality(AddedThrough(inviteId)) <= invite.maxUsage

\* Two calls by different users have joined through an invite with a maxUsage.
C23_Witness ==
  /\ pc = "calls"
  /\ Has(db.groupInvites[1], "maxUsage")
  /\ Cardinality(AddedThrough(1)) = 2

\* A call of revokeInvite for the invite has returned success.
Revoked(inviteId) ==
  \E c \in CallIds :
    /\ At(c, "revokeInvite", "returned")
    /\ calls[c].returned.success
    /\ calls[c].args.inviteId = inviteId

\* The active members of a group.
ActiveMembers(store, groupId) ==
  {key \in DOMAIN store.groupMembers :
     key[1] = groupId /\ store.groupMembers[key].status = "active"}

\* C24: once revokeInvite has returned success for an invite, no step adds a
\* member to its group or changes its usageCount.
C24_NoJoinAfterRevocation ==
  [][\A inviteId \in DOMAIN db.groupInvites :
       Revoked(inviteId) =>
         /\ db'.groupInvites[inviteId].usageCount = db.groupInvites[inviteId].usageCount
         /\ ActiveMembers(db', db.groupInvites[inviteId].groupId)
              = ActiveMembers(db, db.groupInvites[inviteId].groupId)]_vars

\* A call of joinGroupWithToken with the token of a revoked invite has returned.
C24_Witness ==
  /\ pc = "calls"
  /\ Revoked(1)
  /\ \E c \in CallIds : /\ At(c, "joinGroupWithToken", "returned")
                        /\ calls[c].args.token = "t1"
                        /\ calls[c].args.userId # 0

\* C25: the memberCount of every group is the number of its groupMembers
\* documents with status 'active'.
C25_MemberCountIsActiveMembers ==
  \A groupId \in DOMAIN db.groups :
    db.groups[groupId].memberCount = Cardinality(ActiveMembers(db, groupId))

\* A call of createGroup and a call of joinGroupWithToken have both written.
C25_Witness ==
  /\ pc = "calls"
  /\ \E c \in CallIds : JoinCommitted(c)
  /\ \E c \in CallIds : At(c, "createGroup", "returned") /\ calls[c].returned.success

(***************************************************************************)
(* Expenses and the expense total.                                         *)
(***************************************************************************)
RECURSIVE SumStoredCents(_, _)
\* The sum, in cents, of the amounts of the expense documents with ids in S.
SumStoredCents(store, S) ==
  IF S = {} THEN 0
  ELSE LET id == CHOOSE x \in S : TRUE
       IN CentsOf(store.expenses[id].amount) + SumStoredCents(store, S \ {id})

ExpensesOf(store, groupId) ==
  {id \in DOMAIN store.expenses : store.expenses[id].groupId = groupId}

\* C26: the totalExpenses of every group is the sum of the amounts of the
\* expense documents stored for it.
C26_TotalIsSumOfStoredAmounts ==
  \A groupId \in DOMAIN db.groups :
    CentsOf(db.groups[groupId].totalExpenses)
      = SumStoredCents(db, ExpensesOf(db, groupId))

\* Calls of createExpense, updateExpense or deleteExpense have committed, two
\* expense documents are stored and the total has changed.
C26_Witness ==
  /\ pc = "calls"
  /\ \A c \in CallIds : calls[c].pc = "returned" /\ calls[c].returned.success
  /\ Cardinality(DOMAIN db.expenses) = 2
  /\ \E c \in CallIds : calls[c].op = "updateExpense"

\* The user on whose behalf a call of updateExpense or deleteExpense runs.
Caller(call) == IF call.op = "updateExpense" THEN call.args.updatedBy ELSE call.args.userId

\* The expense that a call of updateExpense or deleteExpense has read.
ExpenseRead(call) ==
  IF call.op = "updateExpense" THEN call.locals.existingExpense ELSE call.locals.expense

\* The caller created the expense, passes for an admin, or is an admin of the
\* group of the expense.
MayChange(call) ==
  \/ Caller(call) = ExpenseRead(call).createdBy
  \/ call.args.isAdmin
  \/ LET memberSnap == Snapshot(db.groupMembers,
                                <<ExpenseRead(call).groupId, Caller(call)>>)
     IN IF memberSnap.exists THEN memberSnap.data.role = "admin" ELSE FALSE

\* C27: updateExpense and deleteExpense succeed only for the creator of the
\* expense or an admin.
C27_OnlyCreatorOrAdminChanges ==
  \A c \in CallIds :
    (/\ calls[c].op \in {"updateExpense", "deleteExpense"}
     /\ calls[c].pc = "returned"
     /\ calls[c].returned.success)
      => MayChange(calls[c])

\* A call of updateExpense and a call of deleteExpense have returned, one
\* made by the creator of the expense.
C27_Witness ==
  /\ pc = "calls"
  /\ \E c \in CallIds : /\ At(c, "updateExpense", "returned")
                        /\ calls[c].args.updatedBy = 1
                        /\ calls[c].returned.success
  /\ \E c \in CallIds : At(c, "deleteExpense", "returned")

(***************************************************************************)
(* Safety of the plan of minimizeSettlements.                              *)
(***************************************************************************)
RECURSIVE CentsPaid(_, _)
\* The cents that userId pays in the plan st.
CentsPaid(st, userId) ==
  IF st = <<>> THEN 0
  ELSE (IF Head(st).fromUser = userId THEN CentsOf(Head(st).amount) ELSE 0)
       + CentsPaid(Tail(st), userId)

RECURSIVE CentsReceived(_, _)
\* The cents that userId receives in the plan st.
CentsReceived(st, userId) ==
  IF st = <<>> THEN 0
  ELSE (IF Head(st).toUser = userId THEN CentsOf(Head(st).amount) ELSE 0)
       + CentsReceived(Tail(st), userId)

\* No debtor pays more than their debt and no creditor receives more than
\* their credit in the settlements emitted so far.
NeverOverSettles ==
  \A k \in 1..Len(balances) :
    LET b == balances[k]
    IN /\ IsDebtor(b) => CentsPaid(settlements, b.userId) <= 0 - CentsOf(b.netAmount)
       /\ IsCreditor(b) => CentsReceived(settlements, b.userId) <= CentsOf(b.netAmount)

EveryCreditorSettled ==
  \A k \in 1..Len(balances) :
    IsCreditor(balances[k]) =>
      CentsReceived(settlements, balances[k].userId) = CentsOf(balances[k].netAmount)

EveryDebtorSettled ==
  \A k \in 1..Len(balances) :
    IsDebtor(balances[k]) =>
      CentsPaid(settlements, balances[k].userId) = 0 - CentsOf(balances[k].netAmount)

\* C28: on distinct userIds and whole-cent amounts no debtor pays more than
\* their debt, no creditor receives more than their credit, and when the
\* loop has ended every creditor or every debtor is settled in full.
C28_NeverOverSettlesAndSettlesOneSide ==
  /\ NeverOverSettles
  /\ pc = "done" => EveryCreditorSettled \/ EveryDebtorSettled

\* The loop has ended with two settlements emitted.
C28_Witness ==
  /\ pc = "done"
  /\ Len(settlements) = 2
  /\ NeverOverSettles

\* Every settlement emitted so far has an amount of at least one cent, goes
\* from an input entry with netAmount < 0 to an input entry with
\* netAmount > 0, and these are different users.
WellFormedSettlements ==
  \A n \in 1..Len(settlements) :
    LET s == settlements[n]
    IN /\ FlLeq(Cents(1), s.amount)
       /\ \E k \in 1..Len(balances) :
            balances[k].userId = s.fromUser /\ FlLt(balances[k].netAmount, Zero)
       /\ \E k \in 1..Len(balances) :
            balances[k].userId = s.toUser /\ FlLt(Zero, balances[k].netAmount)
       /\ s.fromUser # s.toUser

DistinctUserIds ==
  \A k, m \in 1..Len(balances) : balances[k].userId = balances[m].userId => k = m

WholeCentAmounts ==
  \A k \in 1..Len(balances) :
    balances[k].netAmount = Cents(balances[k].netAmount.s \div SubCent)

\* C29 as stated, on any argument: every settlement emitted is well formed.
C29_WellFormedOnAnyInput == WellFormedSettlements

\* C29: on distinct userIds and whole-cent amounts, every settlement emitted
\* has a positive amount of at least one cent, goes from a debtor of the
\* input to a creditor of the input, and these are different users.
C29_WellFormedOnDistinctWholeCents ==
  (DistinctUserIds /\ WholeCentAmounts) => WellFormedSettlements

\* A plan of two settlements was returned for distinct users and whole cents.
C29_Witness ==
  /\ pc = "done"
  /\ DistinctUserIds
  /\ WholeCentAmounts
  /\ Len(settlements) = 2

\* No ordered (fromUser, toUser) pair occurs in two settlements of the plan.
NoPairTwice(st) ==
  \A n, m \in 1..Len(st) :
    (st[n].fromUser = st[m].fromUser /\ st[n].toUser = st[m].toUser) => n = m

\* C30: for distinct userIds no ordered (fromUser, toUser) pair occurs in more
\* than one settlement: the cursors i and j never move back, and each emitted
\* settlement moves at least one of them forward.
C30_NoPairTwice ==
  [][/\ DistinctUserIds => NoPairTwice(settlements')
     /\ i' >= i
     /\ j' >= j
     /\ Len(settlements') > Len(settlements) => (i' > i \/ j' > j)]_vars

\* A plan of two settlements to two creditors was returned for distinct users.
C30_Witness ==
  /\ pc = "done"
  /\ DistinctUserIds
  /\ Len(settlements) = 2
  /\ settlements[1].toUser # settlements[2].toUser
====
